---- MODULE Spec2Model ----
(***************************************************************************)
(* Version store of server/datacontroller.py: a page directory holds       *)
(* base.md, latest.md, meta.json and diffs/<NNN>.diff|.json.  Texts are    *)
(* sequences of one-character strings so that splitlines, "\n".join and    *)
(* the difflib tagging are computed as the code computes them.             *)
(***************************************************************************)
EXTENDS Integers, Sequences, FiniteSets, TLC

(* ------------------------------ bounds --------------------------------- *)

\* Longest text (in characters) handed to init_page / commit_diff.
MaxTextLen == 1

\* Largest value of the wall clock; every now_iso() call reads it and ticks.
MaxTime == 9

\* Total size (characters plus line ends) of the two line sequences diffed
\* in the diff-engine specification.
MaxDiffSize == 9

\* Number of calls that are interrupted (process killed) part-way.
MaxCrashes == 1

\* Number of writing calls made by the concurrent callers together.
MaxConcCalls == 3

\* config.PREVIEWWORD: the number of words of latest.md kept as preview.
PREVIEWWORD == 1

\* Latest clock value at which a store call starts in the index specification.
MaxIndexTime == 3

(* --------------------------- text primitives --------------------------- *)

NL == "\n"

\* Characters a line can hold.  None of them is a line boundary for
\* str.splitlines and none is whitespace (difflib's character junk).
Chars == {"a", "b"}

Alphabet == Chars \cup {NL}

TextsUpTo(n) == UNION {[1..k -> Alphabet] : k \in 0..n}

RECURSIVE Concat(_)
Concat(ss) == IF ss = <<>> THEN <<>> ELSE Head(ss) \o Concat(Tail(ss))

Repeat(c, n) == [i \in 1..n |-> c]

Min2(x, y) == IF x < y THEN x ELSE y

SetMin(S) == CHOOSE x \in S : \A y \in S : x <= y

SetMax(S) == CHOOSE x \in S : \A y \in S : y <= x

\* str.splitlines(keepends=False), for texts whose only line boundary is "\n"
RECURSIVE splitlines(_)
splitlines(s) ==
    IF s = <<>> THEN <<>>
    ELSE IF \E i \in 1..Len(s) : s[i] = NL
         THEN LET i == SetMin({k \in 1..Len(s) : s[k] = NL})
              IN  <<SubSeq(s, 1, i - 1)>> \o splitlines(SubSeq(s, i + 1, Len(s)))
         ELSE <<s>>

\* "\n".join(lines)
RECURSIVE join(_)
join(lines) ==
    IF lines = <<>> THEN <<>>
    ELSE IF Len(lines) = 1 THEN lines[1]
    ELSE lines[1] \o <<NL>> \o join(Tail(lines))

\* str.rstrip() on a tag string: drops trailing blanks
RECURSIVE rstrip(_)
rstrip(s) ==
    IF s = <<>> THEN <<>>
    ELSE IF s[Len(s)] = " " THEN rstrip(SubSeq(s, 1, Len(s) - 1))
    ELSE s

\* hashlib.sha256(s.encode("utf-8")).hexdigest(): an injective digest of s
sha256_of_text(s) == <<"sha256">> \o s

\* JSON null
Null == <<"null">>

(* ------------------------ difflib.SequenceMatcher ---------------------- *)
\* Indices are Python's: 0-based, half open; a[i] of Python is a[i+1] here.

\* length of the common run of a[i:ahi] and b[j:bhi] starting at (i, j)
RECURSIVE MatchLen(_, _, _, _, _, _)
MatchLen(a, b, i, j, ahi, bhi) ==
    IF i < ahi /\ j < bhi /\ a[i + 1] = b[j + 1]
    THEN 1 + MatchLen(a, b, i + 1, j + 1, ahi, bhi)
    ELSE 0

\* SequenceMatcher.find_longest_match: longest block, then earliest in a,
\* then earliest in b; <<alo, blo, 0>> when nothing matches.
find_longest_match(a, b, alo, ahi, blo, bhi) ==
    LET pos    == (alo..(ahi - 1)) \X (blo..(bhi - 1))
        len(p) == MatchLen(a, b, p[1], p[2], ahi, bhi)
        first(cand, besti, bestsize) ==
            <<besti, SetMin({p[2] : p \in {q \in cand : q[1] = besti}}), bestsize>>
        pick(cand, bestsize) == first(cand, SetMin({p[1] : p \in cand}), bestsize)
        longest(bestsize) ==
            IF bestsize = 0 THEN <<alo, blo, 0>>
            ELSE pick({p \in pos : len(p) = bestsize}, bestsize)
    IN  longest(SetMax({len(p) : p \in pos} \cup {0}))

\* the blocks get_matching_blocks collects, in ascending order
RECURSIVE RawBlocks(_, _, _, _, _, _)
RawBlocks(a, b, alo, ahi, blo, bhi) ==
    LET around(i, j, k) ==
            IF k = 0 THEN <<>>
            ELSE (IF alo < i /\ blo < j THEN RawBlocks(a, b, alo, i, blo, j) ELSE <<>>)
                 \o <<(<<i, j, k>>)>>
                 \o (IF i + k < ahi /\ j + k < bhi
                     THEN RawBlocks(a, b, i + k, ahi, j + k, bhi) ELSE <<>>)
        split(x) == around(x[1], x[2], x[3])
    IN  split(find_longest_match(a, b, alo, ahi, blo, bhi))

\* collapse adjacent blocks; cur is the block being grown
RECURSIVE Collapse(_, _)
Collapse(blocks, cur) ==
    IF blocks = <<>>
    THEN IF cur[3] > 0 THEN <<cur>> ELSE <<>>
    ELSE LET nx == Head(blocks)
         IN  IF cur[1] + cur[3] = nx[1] /\ cur[2] + cur[3] = nx[2]
             THEN Collapse(Tail(blocks), <<cur[1], cur[2], cur[3] + nx[3]>>)
             ELSE (IF cur[3] > 0 THEN <<cur>> ELSE <<>>) \o Collapse(Tail(blocks), nx)

get_matching_blocks(a, b) ==
    Collapse(RawBlocks(a, b, 0, Len(a), 0, Len(b)), <<0, 0, 0>>)
        \o <<(<<Len(a), Len(b), 0>>)>>

\* opcodes as <<tag, i1, i2, j1, j2>>
RECURSIVE OpcodesFrom(_, _, _)
OpcodesFrom(blocks, i, j) ==
    IF blocks = <<>> THEN <<>>
    ELSE LET m    == Head(blocks)
             ai   == m[1]
             bj   == m[2]
             size == m[3]
             tag  == IF i < ai /\ j < bj THEN "replace"
                     ELSE IF i < ai THEN "delete"
                     ELSE IF j < bj THEN "insert"
                     ELSE ""
         IN  (IF tag # "" THEN <<(<<tag, i, ai, j, bj>>)>> ELSE <<>>)
             \o (IF size > 0 THEN <<(<<"equal", ai, ai + size, bj, bj + size>>)>> ELSE <<>>)
             \o OpcodesFrom(Tail(blocks), ai + size, bj + size)

get_opcodes(a, b) == OpcodesFrom(get_matching_blocks(a, b), 0, 0)

RECURSIVE SumSizes(_)
SumSizes(blocks) == IF blocks = <<>> THEN 0 ELSE Head(blocks)[3] + SumSizes(Tail(blocks))

\* SequenceMatcher.ratio() as the fraction <<numerator, denominator>>
ratio(a, b) ==
    IF Len(a) + Len(b) = 0 THEN <<1, 1>>
    ELSE <<2 * SumSizes(get_matching_blocks(a, b)), Len(a) + Len(b)>>

\* r > s for fractions with positive denominators
RatioGreater(r, s) == r[1] * s[2] > s[1] * r[2]

(* ----------------------------- difflib.Differ --------------------------- *)
\* A delta line is the two-character tag followed by the line.

\* Differ._dump
dump(tag, x, lo, hi) == [k \in 1..(hi - lo) |-> <<tag, " ">> \o x[lo + k]]

\* Differ._plain_replace: the shorter block first
plain_replace(a, alo, ahi, b, blo, bhi) ==
    IF bhi - blo < ahi - alo
    THEN dump("+", b, blo, bhi) \o dump("-", a, alo, ahi)
    ELSE dump("-", a, alo, ahi) \o dump("+", b, blo, bhi)

\* the intraline tag strings built from the character opcodes
RECURSIVE TagsOf(_, _)
TagsOf(ops, side) ==
    IF ops = <<>> THEN <<>>
    ELSE LET op == Head(ops)
             la == op[3] - op[2]
             lb == op[5] - op[4]
             t  == IF op[1] = "replace" THEN Repeat("^", IF side = 1 THEN la ELSE lb)
                   ELSE IF op[1] = "delete" THEN (IF side = 1 THEN Repeat("-", la) ELSE <<>>)
                   ELSE IF op[1] = "insert" THEN (IF side = 1 THEN <<>> ELSE Repeat("+", lb))
                   ELSE Repeat(" ", IF side = 1 THEN la ELSE lb)
         IN  t \o TagsOf(Tail(ops), side)

\* Differ._qformat; _keep_original_ws changes nothing because no character
\* of Chars is whitespace.  A hint line carries its own "\n".
qformat(aline, bline, atags, btags) ==
    LET at == rstrip(atags)
        bt == rstrip(btags)
    IN  <<(<<"-", " ">> \o aline)>>
        \o (IF at # <<>> THEN <<(<<"?", " ">> \o at \o <<NL>>)>> ELSE <<>>)
        \o <<(<<"+", " ">> \o bline)>>
        \o (IF bt # <<>> THEN <<(<<"?", " ">> \o bt \o <<NL>>)>> ELSE <<>>)

\* position of the pair <<i, j>> in the search order of _fancy_replace
\* (for j in range(blo, bhi): for i in range(alo, ahi))
SearchRank(p, alo, ahi) == p[2] * (ahi + 1) + p[1]

FirstPair(S, alo, ahi) ==
    CHOOSE p \in S : \A q \in S : SearchRank(p, alo, ahi) <= SearchRank(q, alo, ahi)

\* the pairs of unequal lines with the highest ratio above the initial
\* best_ratio 0.74
BestPairs(a, b, pairs) ==
    LET r(p)       == ratio(a[p[1] + 1], b[p[2] + 1])
        tops(good) == {p \in good : \A q \in good : ~RatioGreater(r(q), r(p))}
    IN  tops({p \in pairs : a[p[1] + 1] # b[p[2] + 1] /\ RatioGreater(r(p), <<74, 100>>)})

\* the intraline markup of a close pair of lines
Intraline(aelt, belt) ==
    LET marked(ops) == qformat(aelt, belt, TagsOf(ops, 1), TagsOf(ops, 2))
    IN  marked(get_opcodes(aelt, belt))

RECURSIVE fancy_replace(_, _, _, _, _, _)
RECURSIVE fancy_helper(_, _, _, _, _, _)

\* Differ._fancy_replace
fancy_replace(a, alo, ahi, b, blo, bhi) ==
    LET pairs == (alo..(ahi - 1)) \X (blo..(bhi - 1))
        eqs   == {p \in pairs : a[p[1] + 1] = b[p[2] + 1]}
        synch(best_i, best_j, close) ==
            fancy_helper(a, alo, best_i, b, blo, best_j)
            \o (IF close THEN Intraline(a[best_i + 1], b[best_j + 1])
                ELSE <<(<<" ", " ">> \o a[best_i + 1])>>)
            \o fancy_helper(a, best_i + 1, ahi, b, best_j + 1, bhi)
        at(best, close) == synch(best[1], best[2], close)
        \* best_ratio reaches the cutoff 0.75
        close(tops) ==
            /\ tops # {}
            /\ ~RatioGreater(<<75, 100>>,
                             ratio(a[FirstPair(tops, alo, ahi)[1] + 1],
                                   b[FirstPair(tops, alo, ahi)[2] + 1]))
        decide(tops, isclose) ==
            IF isclose THEN at(FirstPair(tops, alo, ahi), TRUE)
            ELSE IF eqs = {} THEN plain_replace(a, alo, ahi, b, blo, bhi)
            ELSE at(FirstPair(eqs, alo, ahi), FALSE)
        search(tops) == decide(tops, close(tops))
    IN  search(BestPairs(a, b, pairs))

\* Differ._fancy_helper
fancy_helper(a, alo, ahi, b, blo, bhi) ==
    IF alo < ahi
    THEN IF blo < bhi THEN fancy_replace(a, alo, ahi, b, blo, bhi)
         ELSE dump("-", a, alo, ahi)
    ELSE IF blo < bhi THEN dump("+", b, blo, bhi)
    ELSE <<>>

RECURSIVE CompareOps(_, _, _)
CompareOps(ops, a, b) ==
    IF ops = <<>> THEN <<>>
    ELSE LET op == Head(ops)
             g  == IF op[1] = "replace" THEN fancy_replace(a, op[2], op[3], b, op[4], op[5])
                   ELSE IF op[1] = "delete" THEN dump("-", a, op[2], op[3])
                   ELSE IF op[1] = "insert" THEN dump("+", b, op[4], op[5])
                   ELSE dump(" ", a, op[2], op[3])
         IN  g \o CompareOps(Tail(ops), a, b)

\* difflib.ndiff(a, b) = Differ().compare(a, b) on line sequences
ndiff(a, b) == CompareOps(get_opcodes(a, b), a, b)

\* difflib.restore(delta, which): lines whose first two characters are
\* "  " or the tag of the wanted side, without those two characters
restore(delta, which) ==
    LET tag      == IF which = 1 THEN "-" ELSE "+"
        keep(ln) == Len(ln) >= 2 /\ ln[2] = " " /\ ln[1] \in {" ", tag}
        kept     == SelectSeq(delta, keep)
    IN  [k \in 1..Len(kept) |-> SubSeq(kept[k], 3, Len(kept[k]))]

(* ------------------------------ the store ------------------------------ *)

\* identifiers a caller can supply; uuid4() draws from the unused ones
Ids == {"p1", "p2"}

\* id_ arguments of init_page: an identifier, None or the empty string
NoId == "None"

IdArgs == Ids \cup {NoId, ""}

Titles == {"T"}

Authors == {"A"}

\* "" makes init_page fall back to "article"
Genres == {""}

CommitAuthors == {"E"}

Messages == {"edit"}

\* index arguments of view_version besides None
ViewIndexes == -1..2

\* texts handed to init_page and commit_diff: lines of "a" and line ends
InputTexts == UNION {[1..k -> {"a", NL}] : k \in 0..MaxTextLen}

\* An optional value is <<>> (absent) or <<v>>.
None == <<>>

Some(v) == <<v>>

NoFiles == [n \in {} |-> <<>>]

\* meta.json as a dict: the keys present and their values
EmptyMeta ==
    [keys |-> {}, uuid |-> "", title |-> "", author |-> "", genre |-> "",
     date |-> 0, version |-> 0, baseHash |-> Null, latestHash |-> Null,
     diffCount |-> 0, createdAt |-> 0, updatedAt |-> 0]

MetaKeys ==
    {"uuid", "title", "author", "genre", "date", "version", "baseHash",
     "latestHash", "diffCount", "createdAt", "updatedAt"}

\* a page directory that does not exist
NoPage ==
    [dir |-> FALSE, base |-> None, latest |-> None, tmp |-> None,
     meta |-> None, diffs |-> NoFiles, djson |-> NoFiles]

VARIABLES
    fs,        \* page_dir_for(id): the files of each page directory
    now,       \* the wall clock now_iso() reads
    last,      \* the call that just returned (arguments, result, error); reset when a call starts
    writes,    \* per page, the calls that wrote to it, in order
    given,     \* per page, the base_text of the last init_page
    commits,   \* per page, the commits that returned: new_text, latest, file
    procs,     \* file-level specification: the call each worker is executing
    crashes,   \* file-level specification: calls interrupted so far
    raced,     \* file-level specification: per page, whether two calls on it overlapped
    db,        \* index specification: the SQLite file DB_FILE
    cache,     \* the lru_cache of ReadsAPI.pageList and ReadsAPI.read
    diffIn,    \* diff-engine specification: the two line sequences
    diffOut    \* diff-engine specification: stored delta and restored sides

vars == <<fs, now, last, writes, given, commits, procs, crashes, raced, db, cache, diffIn, diffOut>>

\* what the store calls never touch
Others == <<crashes, raced, db, cache, diffIn, diffOut>>

(* ------------------------------- utils --------------------------------- *)

DigitChars == <<"0", "1", "2", "3", "4", "5", "6", "7", "8", "9">>

\* str(n) for n >= 0
RECURSIVE str(_)
str(n) == IF n < 10 THEN <<DigitChars[n + 1]>> ELSE str(n \div 10) \o <<DigitChars[(n % 10) + 1]>>

\* zero_pad(n, width=3) = str(n).zfill(3)
zero_pad(n) ==
    LET d == str(n) IN IF Len(d) >= 3 THEN d ELSE Repeat("0", 3 - Len(d)) \o d

DigitValue(c) == CHOOSE v \in 0..9 : DigitChars[v + 1] = c

\* int(p.stem)
RECURSIVE int(_)
int(stem) ==
    IF stem = <<>> THEN 0
    ELSE 10 * int(SubSeq(stem, 1, Len(stem) - 1)) + DigitValue(stem[Len(stem)])

\* the name of a delta file from its stem
DiffName(stem) == stem \o <<".diff">>

\* a meta.json whose content is not JSON
Garbage == [EmptyMeta EXCEPT !.keys = {"<not json>"}]

\* load_meta: the dict of meta.json, {} when the file is missing or when
\* json.loads raises JSONDecodeError
load_meta(page) ==
    IF page.meta = None \/ page.meta[1] = Garbage THEN EmptyMeta ELSE page.meta[1]

\* save_meta: ensure_dir(page_dir) and overwrite meta.json
save_meta(page, meta) == [page EXCEPT !.dir = TRUE, !.meta = Some(meta)]

\* meta.get("diffCount", 0)
GetDiffCount(meta) == IF "diffCount" \in meta.keys THEN meta.diffCount ELSE 0

(* ------------------------------ core ops ------------------------------- *)

\* the highest index in use handed out again
next_diff_index_nobump(page) ==
    LET nums == {int(n) : n \in DOMAIN page.diffs}
    IN  IF nums # {} THEN SetMax(nums) ELSE 1

\* _next_diff_index
next_diff_index(page) ==
    LET nums == {int(n) : n \in DOMAIN page.diffs}
    IN  IF nums # {} THEN SetMax(nums) + 1 ELSE 1

\* _sorted_diff_files: the stems of the .diff files ordered by int(stem)
RECURSIVE SortStems(_)
SortStems(S) ==
    IF S = {} THEN <<>>
    ELSE LET m == CHOOSE x \in S : \A y \in S : int(x) <= int(y)
         IN  <<m>> \o SortStems(S \ {m})

\* the order of the file names as strings
RECURSIVE NameLess(_, _)
NameLess(x, y) ==
    IF y = <<>> THEN FALSE
    ELSE IF x = <<>> THEN TRUE
    ELSE IF Head(x) = Head(y) THEN NameLess(Tail(x), Tail(y))
    ELSE DigitValue(Head(x)) < DigitValue(Head(y))

RECURSIVE SortNames(_)
SortNames(S) ==
    IF S = {} THEN <<>>
    ELSE LET m == CHOOSE x \in S : \A y \in S : ~NameLess(y, x)
         IN  <<m>> \o SortNames(S \ {m})

\* the delta files in the order of their names
sorted_diff_files_byname(page) == SortNames(DOMAIN page.diffs)

sorted_diff_files(page) == SortStems(DOMAIN page.diffs)

\* the delta joined without line separators
DeltaText_nosep(old_lines, new_lines) == Concat(ndiff(old_lines, new_lines))

\* the delta commit_diff stores: "\n".join(difflib.ndiff(old_lines, new_lines))
DeltaText(old_lines, new_lines) == join(ndiff(old_lines, new_lines))

\* a stored delta read back, split into lines and restored to one side
RestoreSide(diff_text, which) == restore(splitlines(diff_text), which)

\* the loop of apply_diffs_to_text: every delta replaces text_lines by the
\* NEW side of the delta
RECURSIVE ApplyLoop(_, _)
ApplyLoop(text_lines, diff_texts) ==
    IF diff_texts = <<>> THEN text_lines
    ELSE ApplyLoop(RestoreSide(Head(diff_texts), 2), Tail(diff_texts))

\* the replayed lines joined without the final newline
apply_diffs_to_text_nonl(base_text, diff_texts) ==
    join(ApplyLoop(splitlines(base_text), diff_texts))

\* apply_diffs_to_text(base_text, contents of the delta files)
apply_diffs_to_text(base_text, diff_texts) ==
    LET text_lines == ApplyLoop(splitlines(base_text), diff_texts)
    IN  join(text_lines) \o (IF text_lines # <<>> THEN <<NL>> ELSE <<>>)

\* the delta files handed over last first
ReadDiffs_reversed(page, stems) ==
    [k \in 1..Len(stems) |-> page.diffs[stems[Len(stems) - k + 1]]]

\* the contents of the files named by a list of stems
ReadDiffs(page, stems) == [k \in 1..Len(stems) |-> page.diffs[stems[k]]]

(* --------------------- the file writes of each call -------------------- *)
\* Files are written and read as UTF-8 text on a POSIX system: a text made
\* of Chars and "\n" is stored and read back unchanged.

\* init_page: ensure_dir(diffs_dir)
InitDirs(page) == [page EXCEPT !.dir = TRUE]

\* init_page: base_path.write_text(base_text)
InitBase(page, base_text) == [page EXCEPT !.base = Some(base_text)]

\* latest.md written in normalized form
InitLatest_norm(page, base_text) ==
    [page EXCEPT !.latest = Some(apply_diffs_to_text(base_text, <<>>))]

\* init_page: latest_path.write_text(base_text)
InitLatest(page, base_text) == [page EXCEPT !.latest = Some(base_text)]

\* init_page: the meta dict and save_meta; clock is the first now_iso()
InitMeta(page, id, title, author, genre, base_text, clock) ==
    save_meta(page,
        [keys |-> MetaKeys, uuid |-> id, title |-> title, author |-> author,
         genre |-> IF genre = "" THEN "article" ELSE genre,
         date |-> clock, version |-> 0,
         baseHash |-> sha256_of_text(base_text),
         latestHash |-> sha256_of_text(base_text),
         diffCount |-> 0, createdAt |-> clock + 1, updatedAt |-> clock + 2])

\* commit_diff: latest_path.exists() or base.md can be read
HasOldText(page) == page.latest # None \/ page.base # None

\* the delta computed against base.md although latest.md exists
CommitOldText_base(page) == IF page.base # None THEN page.base[1] ELSE page.latest[1]

\* commit_diff: the text the delta is computed against
CommitOldText(page) == IF page.latest # None THEN page.latest[1] ELSE page.base[1]

\* commit_diff: diff_file.write_text(diff_text)
CommitWriteDiff(page, idx, diff_text) ==
    [page EXCEPT !.diffs = (zero_pad(idx) :> diff_text) @@ @]

\* commit_diff: meta_file.write_text(json.dumps(diff_meta))
CommitWriteJson(page, idx, author, message, diff_hash, clock) ==
    [page EXCEPT !.djson =
        (zero_pad(idx) :> [index |-> idx, file |-> DiffName(zero_pad(idx)),
                           author |-> author, message |-> message,
                           createdAt |-> clock, diffHash |-> diff_hash]) @@ @]

\* version taken from the diffCount read, before the increment
CommitMeta_stale(page, clock) ==
    LET meta == load_meta(page)
        n    == GetDiffCount(meta) + 1
    IN  save_meta(page,
            [meta EXCEPT !.keys = @ \cup {"diffCount", "version", "latestHash", "updatedAt"},
                         !.diffCount = n, !.version = GetDiffCount(meta),
                         !.latestHash = Null, !.updatedAt = clock])

\* the author of the newest delta copied into the page metadata
CommitMeta_author(page, clock) ==
    LET meta == load_meta(page)
        n    == GetDiffCount(meta) + 1
        newest(stems) == page.djson[stems[Len(stems)]].author
    IN  save_meta(page,
            [meta EXCEPT !.keys = @ \cup {"diffCount", "version", "latestHash", "updatedAt"},
                         !.diffCount = n, !.version = n,
                         !.author = newest(SortStems(DOMAIN page.djson)),
                         !.latestHash = Null, !.updatedAt = clock])

\* commit_diff: "update page meta"
CommitMeta(page, clock) ==
    LET meta == load_meta(page)
        n    == GetDiffCount(meta) + 1
    IN  save_meta(page,
            [meta EXCEPT !.keys = @ \cup {"diffCount", "version", "latestHash", "updatedAt"},
                         !.diffCount = n, !.version = n,
                         !.latestHash = Null, !.updatedAt = clock])

\* only the first meta.diffCount delta files replayed
RebuildText_counted(page) ==
    apply_diffs_to_text(page.base[1],
        ReadDiffs(page, SubSeq(sorted_diff_files(page), 1,
                               Min2(GetDiffCount(load_meta(page)),
                                    Len(sorted_diff_files(page))))))

\* rebuild_latest: base text replayed through all delta files
RebuildText(page) ==
    apply_diffs_to_text(page.base[1], ReadDiffs(page, sorted_diff_files(page)))

\* a rebuild that writes latest.md in place instead of a temporary file
RebuildOpenTmp_inplace(page) == [page EXCEPT !.tmp = Some(<<>>), !.latest = Some(<<>>)]

\* rebuild_latest: tmp.write_text opens the file, truncating it
RebuildOpenTmp(page) == [page EXCEPT !.tmp = Some(<<>>)]

\* a write at offset 0 of a file that holds existing
Overlay(existing, new_text) ==
    new_text \o SubSeq(existing, Len(new_text) + 1, Len(existing))

\* rebuild_latest: tmp.write_text(new_text)
RebuildWriteTmp(page, new_text) == [page EXCEPT !.tmp = Some(new_text)]

\* the temporary file removed without replacing latest.md
RebuildReplace_keep(page) == [page EXCEPT !.tmp = None]

\* rebuild_latest: tmp.replace(latest_path)
RebuildReplace(page) == [page EXCEPT !.latest = page.tmp, !.tmp = None]

\* only updatedAt refreshed, latestHash left as it was
RebuildMeta_nohash(page, new_text, clock) ==
    LET meta == load_meta(page)
    IN  save_meta(page, [meta EXCEPT !.keys = @ \cup {"updatedAt"}, !.updatedAt = clock])

\* the rebuild counted as a new version
RebuildMeta_bump(page, new_text, clock) ==
    LET meta == load_meta(page)
    IN  save_meta(page,
            [meta EXCEPT !.keys = @ \cup {"latestHash", "updatedAt"},
                         !.latestHash = sha256_of_text(new_text),
                         !.version = @ + 1, !.diffCount = @ + 1,
                         !.updatedAt = clock])

\* rebuild_latest: latestHash and updatedAt
RebuildMeta(page, new_text, clock) ==
    LET meta == load_meta(page)
    IN  save_meta(page,
            [meta EXCEPT !.keys = @ \cup {"latestHash", "updatedAt"},
                         !.latestHash = sha256_of_text(new_text),
                         !.updatedAt = clock])

\* rebuild_latest from its first read to its return
rebuild_latest(page, clock) ==
    LET new_text == RebuildText(page)
    IN  RebuildMeta(RebuildReplace(RebuildWriteTmp(page, new_text)), new_text, clock)

\* the index ignored: every delta replayed
view_version_all(page, index) ==
    apply_diffs_to_text(page.base[1], ReadDiffs(page, sorted_diff_files(page)))

\* view_version on an existing page; index is None or Some(k)
view_version(page, index) ==
    LET all_files  == sorted_diff_files(page)
        diff_files == IF index = None THEN all_files
                      ELSE IF index[1] <= 0 THEN <<>>
                      ELSE SubSeq(all_files, 1, Min2(index[1], Len(all_files)))
    IN  apply_diffs_to_text(page.base[1], ReadDiffs(page, diff_files))

\* list_diffs: (file name, metadata) per delta file in numeric order; the
\* metadata is {} (here <<>>) when the .json file is missing
list_diffs(page) ==
    LET stems == sorted_diff_files(page)
    IN  [k \in 1..Len(stems) |->
            <<DiffName(stems[k]),
              IF stems[k] \in DOMAIN page.djson THEN Some(page.djson[stems[k]]) ELSE None>>]

(* --------------------------- initial state ----------------------------- *)

NoCall ==
    [op |-> "none", id |-> "", arg |-> "", index |-> None, text |-> <<>>,
     ret |-> <<>>, err |-> "", existed |-> FALSE]

Idle ==
    [pc |-> "idle", op |-> "none", id |-> "", arg |-> "", text |-> <<>>,
     title |-> "", author |-> "", genre |-> "", message |-> "",
     diff_text |-> <<>>, idx |-> 0, new_text |-> <<>>, existed |-> FALSE,
     fd |-> "none",
     start |-> NoPage, shared |-> FALSE]

\* callers of the store; Procs are the ones that call when calls on a page
\* are serialized by the caller
Workers == {"w1", "w2"}

Procs == {"w1"}

NoDiff == [phase |-> "input", file |-> <<>>, new |-> <<>>, old |-> <<>>]

\* DB_FILE does not exist.  file: the file exists; table: it has the table
\* pages_index; rows: the rows of pages_index by UUID; reads: the rows of
\* the table reads by uuid, None without that table; locked: a connection that was
\* never closed holds an uncommitted write
NoDb == [file |-> FALSE, table |-> FALSE, rows |-> NoFiles, reads |-> None, locked |-> FALSE]

\* both lru_cache wrappers empty: results by argument tuple
NoCache == [pageList |-> NoFiles, read |-> NoFiles]

\* no call made yet
CallsInit ==
    /\ now = 0
    /\ last = NoCall
    /\ writes = [id \in Ids |-> <<>>]
    /\ given = [id \in Ids |-> None]
    /\ commits = [id \in Ids |-> <<>>]
    /\ procs = [w \in Workers |-> Idle]
    /\ crashes = 0
    /\ raced = [id \in Ids |-> FALSE]
    /\ db = NoDb
    /\ cache = NoCache

StoreInit ==
    /\ fs = [id \in Ids |-> NoPage]
    /\ CallsInit

Init ==
    /\ StoreInit
    /\ diffIn = [a |-> <<>>, b |-> <<>>]
    /\ diffOut = NoDiff

(* ------------------- the public API, one call per step ----------------- *)

\* uuidlib.uuid4(): an identifier no page uses yet
Uuid4(id) == ~fs[id].dir

\* an init_page that also enters the new page into pages_index
InitPage_indexed(title, author, genre, base_text, id_arg) ==
    /\ now + 3 <= MaxTime
    /\ \E id \in Ids :
        /\ IF id_arg \in {NoId, ""} THEN Uuid4(id) ELSE id = id_arg
        /\ fs' = [fs EXCEPT ![id] =
                    InitMeta(InitLatest(InitBase(InitDirs(@), base_text), base_text),
                             id, title, author, genre, base_text, now)]
        /\ last' = [NoCall EXCEPT !.op = "init", !.id = id, !.arg = id_arg,
                                  !.text = base_text, !.ret = <<id>>,
                                  !.existed = fs[id].dir]
        /\ writes' = [writes EXCEPT ![id] = Append(@, "init")]
        /\ given' = [given EXCEPT ![id] = Some(base_text)]
        /\ db' = [db EXCEPT !.file = TRUE, !.table = TRUE,
                            !.rows = (id :> [UUID |-> id, GENRE |-> "article",
                                             AUTHOR |-> author, DATE_CREATED |-> now + 1,
                                             PREVIEW |-> <<>>, PREFIX |-> id]) @@ @]
    /\ now' = now + 3
    /\ UNCHANGED <<commits, procs, crashes, raced, cache, diffIn, diffOut>>

\* init_page(title, author, genre, base_text, id_)
InitPage(title, author, genre, base_text, id_arg) ==
    /\ now + 3 <= MaxTime
    /\ \E id \in Ids :
        /\ IF id_arg \in {NoId, ""} THEN Uuid4(id) ELSE id = id_arg
        /\ fs' = [fs EXCEPT ![id] =
                    InitMeta(InitLatest(InitBase(InitDirs(@), base_text), base_text),
                             id, title, author, genre, base_text, now)]
        /\ last' = [NoCall EXCEPT !.op = "init", !.id = id, !.arg = id_arg,
                                  !.text = base_text, !.ret = <<id>>,
                                  !.existed = fs[id].dir]
        /\ writes' = [writes EXCEPT ![id] = Append(@, "init")]
        /\ given' = [given EXCEPT ![id] = Some(base_text)]
    /\ now' = now + 3
    /\ UNCHANGED <<commits, procs, Others>>

\* the page commit_diff leaves behind: delta, delta metadata, page meta, rebuild
CommitPage(page, new_text, author, message, clock) ==
    LET old_text  == CommitOldText(page)
        diff_text == DeltaText(splitlines(old_text), splitlines(new_text))
        idx       == next_diff_index(page)
        p1        == CommitWriteDiff(page, idx, diff_text)
        p2        == CommitWriteJson(p1, idx, author, message,
                                     sha256_of_text(diff_text), clock)
        p3        == CommitMeta(p2, clock + 1)
    IN  rebuild_latest(p3, clock + 2)

\* commit_diff(id_, new_text, author, message)
CommitDiff(id, new_text, author, message) ==
    IF ~fs[id].dir
    THEN /\ last' = [NoCall EXCEPT !.op = "commit", !.id = id, !.text = new_text,
                                   !.err = "FileNotFoundError"]
         /\ UNCHANGED <<fs, now, writes, given, commits, procs, Others>>
    ELSE /\ now + 3 <= MaxTime
         /\ fs' = [fs EXCEPT ![id] = CommitPage(@, new_text, author, message, now)]
         /\ now' = now + 3
         /\ last' = [NoCall EXCEPT !.op = "commit", !.id = id, !.text = new_text,
                                   !.ret = DiffName(zero_pad(next_diff_index(fs[id]))),
                                   !.existed = TRUE]
         /\ writes' = [writes EXCEPT ![id] = Append(@, "commit")]
         /\ commits' = [commits EXCEPT ![id] =
                          Append(@, [new_text |-> new_text,
                                     latest |-> fs'[id].latest,
                                     file |-> DiffName(zero_pad(next_diff_index(fs[id])))])]
         /\ UNCHANGED <<given, procs, Others>>

\* the diffs directory created before the existence check
RebuildLatest_mkdir(id) ==
    IF ~fs[id].dir
    THEN /\ last' = [NoCall EXCEPT !.op = "rebuild", !.id = id,
                                   !.err = "FileNotFoundError"]
         /\ fs' = [fs EXCEPT ![id] = InitDirs(@)]
         /\ UNCHANGED <<now, writes, given, commits, procs, Others>>
    ELSE /\ now + 1 <= MaxTime
         /\ fs' = [fs EXCEPT ![id] = rebuild_latest(@, now)]
         /\ now' = now + 1
         /\ last' = [NoCall EXCEPT !.op = "rebuild", !.id = id,
                                   !.ret = <<"latest.md">>, !.existed = TRUE]
         /\ writes' = [writes EXCEPT ![id] = Append(@, "rebuild")]
         /\ UNCHANGED <<given, commits, procs, Others>>

\* rebuild_latest(id_)
RebuildLatest(id) ==
    IF ~fs[id].dir
    THEN /\ last' = [NoCall EXCEPT !.op = "rebuild", !.id = id,
                                   !.err = "FileNotFoundError"]
         /\ UNCHANGED <<fs, now, writes, given, commits, procs, Others>>
    ELSE /\ now + 1 <= MaxTime
         /\ fs' = [fs EXCEPT ![id] = rebuild_latest(@, now)]
         /\ now' = now + 1
         /\ last' = [NoCall EXCEPT !.op = "rebuild", !.id = id,
                                   !.ret = <<"latest.md">>, !.existed = TRUE]
         /\ writes' = [writes EXCEPT ![id] = Append(@, "rebuild")]
         /\ UNCHANGED <<given, commits, procs, Others>>

\* the text viewed is also written to latest.md
ViewVersion_cache(id, index) ==
    /\ last' = IF fs[id].base = None
               THEN [NoCall EXCEPT !.op = "view", !.id = id, !.index = index,
                                   !.err = "FileNotFoundError"]
               ELSE [NoCall EXCEPT !.op = "view", !.id = id, !.index = index,
                                   !.ret = view_version(fs[id], index),
                                   !.existed = TRUE]
    /\ fs' = IF fs[id].base = None THEN fs
             ELSE [fs EXCEPT ![id].latest = Some(view_version(fs[id], index))]
    /\ UNCHANGED <<now, writes, given, commits, procs, Others>>

\* view_version(id_, index); base_path.read_text raises when base.md is missing
ViewVersion(id, index) ==
    /\ last' = IF fs[id].base = None
               THEN [NoCall EXCEPT !.op = "view", !.id = id, !.index = index,
                                   !.err = "FileNotFoundError"]
               ELSE [NoCall EXCEPT !.op = "view", !.id = id, !.index = index,
                                   !.ret = view_version(fs[id], index),
                                   !.existed = TRUE]
    /\ UNCHANGED <<fs, now, writes, given, commits, procs, Others>>

\* list_diffs(id_)
ListDiffs(id) ==
    /\ last' = [NoCall EXCEPT !.op = "list", !.id = id, !.ret = list_diffs(fs[id]),
                              !.existed = fs[id].dir]
    /\ UNCHANGED <<fs, now, writes, given, commits, procs, Others>>

Next ==
    \/ \E t \in Titles, a \in Authors, g \in Genres, x \in InputTexts, i \in IdArgs :
          InitPage(t, a, g, x, i)
    \/ \E id \in Ids, x \in InputTexts, a \in CommitAuthors, m \in Messages :
          CommitDiff(id, x, a, m)
    \/ \E id \in Ids : RebuildLatest(id)
    \/ \E id \in Ids, k \in {None} \cup {Some(n) : n \in ViewIndexes} : ViewVersion(id, k)
    \/ \E id \in Ids : ListDiffs(id)

Spec == Init /\ [][Next]_vars

(* ------------- the public API on a store others can modify ------------ *)
\* The page directories are ordinary files: an operator or a failing disk can
\* remove or alter them between two calls.

\* what a damaged delta file can hold
CorruptTexts == {<<>>, <<"+", " ", "a">>}

\* diffs/<stem>.diff is deleted between two calls
DeleteDiff(id, stem) ==
    /\ stem \in DOMAIN fs[id].diffs
    /\ fs' = [fs EXCEPT ![id].diffs = [n \in DOMAIN @ \ {stem} |-> @[n]]]
    /\ last' = NoCall
    /\ UNCHANGED <<now, writes, given, commits, procs, Others>>

\* the content of diffs/<stem>.diff changes, its .json does not
CorruptDiff(id, stem, text) ==
    /\ stem \in DOMAIN fs[id].diffs
    /\ fs[id].diffs[stem] # text
    /\ fs' = [fs EXCEPT ![id].diffs[stem] = text]
    /\ last' = NoCall
    /\ UNCHANGED <<now, writes, given, commits, procs, Others>>

\* the content of base.md changes, meta.json does not
CorruptBase(id, text) ==
    /\ fs[id].base # None
    /\ fs[id].base # Some(text)
    /\ fs' = [fs EXCEPT ![id].base = Some(text)]
    /\ last' = NoCall
    /\ UNCHANGED <<now, writes, given, commits, procs, Others>>

\* the calls that write
WriteNext ==
    \/ \E t \in Titles, a \in Authors, g \in Genres, x \in InputTexts, i \in IdArgs :
          InitPage(t, a, g, x, i)
    \/ \E id \in Ids, x \in InputTexts, a \in CommitAuthors, m \in Messages :
          CommitDiff(id, x, a, m)
    \/ \E id \in Ids : RebuildLatest(id)

EnvNext ==
    \/ WriteNext
    \/ \E id \in Ids, stem \in {zero_pad(k) : k \in 1..MaxTime} : DeleteDiff(id, stem)
    \/ \E id \in Ids, stem \in {zero_pad(k) : k \in 1..MaxTime}, x \in CorruptTexts :
          CorruptDiff(id, stem, x)
    \/ \E id \in Ids, x \in InputTexts : CorruptBase(id, x)

EnvSpec == Init /\ [][EnvNext]_vars

(* --------------------- list_diffs on a page directory ------------------ *)

\* indices of the delta files a directory listing can hold, up to four digits
ListedIndexes == {1, 2, 10, 999, 1000}

\* a page directory with the delta files of the indices in S, those in J
\* with their .json file
RECURSIVE WithDeltas(_, _, _)
WithDeltas(page, S, J) ==
    IF S = {} THEN page
    ELSE LET k == CHOOSE x \in S : TRUE
             d == CommitWriteDiff(page, k, <<>>)
         IN  WithDeltas(IF k \in J
                        THEN CommitWriteJson(d, k, "E", "edit", sha256_of_text(<<>>), k)
                        ELSE d,
                        S \ {k}, J)

ListInit ==
    /\ \E S \in SUBSET ListedIndexes : \E J \in SUBSET S :
          fs = [id \in Ids |->
                  IF id = "p1"
                  THEN WithDeltas(InitMeta(InitLatest(InitBase(InitDirs(NoPage), <<>>), <<>>),
                                           id, "T", "A", "", <<>>, 0), S, J)
                  ELSE NoPage]
    /\ CallsInit
    /\ diffIn = [a |-> <<>>, b |-> <<>>]
    /\ diffOut = NoDiff

ListNext == \E id \in Ids : ListDiffs(id)

ListSpec == ListInit /\ [][ListNext]_vars

(* ------------------------ the index pages_index ------------------------ *)

\* the variables the index operations leave alone
StoreVars == <<fs, now, writes, given, commits, procs, crashes, raced, cache, diffIn, diffOut>>

\* str.split() without argument splits at runs of whitespace
Whitespace == {NL, " "}

\* content_text.split()
RECURSIVE split(_)
split(text) ==
    IF text = <<>> THEN <<>>
    ELSE IF Head(text) \in Whitespace THEN split(Tail(text))
    ELSE LET n == SetMin({k \in 1..Len(text) :
                             k = Len(text) \/ text[k + 1] \in Whitespace})
         IN  <<SubSeq(text, 1, n)>> \o split(SubSeq(text, n + 1, Len(text)))

\* " ".join(words)
RECURSIVE join_words(_)
join_words(ws) ==
    IF ws = <<>> THEN <<>>
    ELSE IF Len(ws) = 1 THEN ws[1]
    ELSE ws[1] \o <<" ">> \o join_words(Tail(ws))

\* preview = " ".join(words[:PREVIEWWORD])
preview(content_text) ==
    LET ws == split(content_text)
    IN  join_words(SubSeq(ws, 1, Min2(PREVIEWWORD, Len(ws))))

\* page_dir_for: prefix = uuid_[:2]; the identifiers of Ids have two characters
prefix_of(id) == id

\* meta.get(key, ""); the "" of a missing createdAt is 0, below every timestamp
meta_get(meta, key) == IF key \in meta.keys THEN meta[key] ELSE EmptyMeta[key]

\* the values indexToDB and insertPage bind to the INSERT for the directory id
IndexRow(id) ==
    LET meta == fs[id].meta[1]
    IN  [UUID |-> meta_get(meta, "uuid"), GENRE |-> meta_get(meta, "genre"),
         AUTHOR |-> meta_get(meta, "author"),
         DATE_CREATED |-> meta_get(meta, "createdAt"),
         PREVIEW |-> preview(fs[id].latest[1]), PREFIX |-> prefix_of(id)]

\* os.path.exists(meta_path) and os.path.exists(contents)
Indexable(id) == fs[id].dir /\ fs[id].meta # None /\ fs[id].latest # None

\* json.load(f) raises on this meta.json
Unparseable(id) == fs[id].meta # None /\ fs[id].meta[1] = Garbage

\* INSERT ... ON CONFLICT(UUID) DO UPDATE SET ... for the directories of S
RECURSIVE Upsert(_, _)
Upsert(rows, S) ==
    IF S = {} THEN rows
    ELSE LET id == CHOOSE x \in S : TRUE
         IN  Upsert((IndexRow(id).UUID :> IndexRow(id)) @@ rows, S \ {id})

\* INSERT ... SELECT ... WHERE NOT EXISTS (SELECT 1 FROM pages_index WHERE UUID = ?)
InsertIfAbsent(rows, id) ==
    IF IndexRow(id).UUID \in DOMAIN rows THEN rows ELSE (IndexRow(id).UUID :> IndexRow(id)) @@ rows

\* sqlite3.connect(DB_FILE) creates the file; _ensure_pages_index_table
\* creates the table, which SQLite keeps without a commit
Connected == [db EXCEPT !.file = TRUE, !.table = TRUE]

\* indexToDB(PAGEDIR).  One try block holds the whole walk and the only
\* conn.commit(): an exception (json.load on an unparseable meta.json, a
\* locked database) ends the walk before the commit, is printed and swallowed,
\* and the connection is left open.  The walk follows os.listdir, whose order
\* is arbitrary, so the walk may or may not have executed an INSERT (which
\* leaves the abandoned connection holding the write lock) before it failed.
IndexToDB ==
    LET S    == {id \in Ids : Indexable(id)}
        bad  == \E id \in S : Unparseable(id)
        good == \E id \in S : ~Unparseable(id)
    IN  /\ IF bad \/ (db.locked /\ S # {})
           THEN /\ \E lock \in BOOLEAN :
                      /\ lock => good \/ db.locked
                      /\ db.locked => lock
                      /\ db' = [Connected EXCEPT !.locked = lock]
                /\ last' = [NoCall EXCEPT !.op = "indexAll",
                                          !.ret = <<"Error during indexing">>]
           ELSE /\ db' = [Connected EXCEPT !.rows = Upsert(@, S)]
                /\ last' = [NoCall EXCEPT !.op = "indexAll",
                                          !.ret = <<"Indexed", Cardinality(S)>>]
        /\ UNCHANGED StoreVars

\* insertPage(page_dir_for(id))
InsertPage(id) ==
    /\ IF Indexable(id) /\ ~Unparseable(id) /\ ~db.locked
       THEN /\ db' = [Connected EXCEPT !.rows = InsertIfAbsent(@, id)]
            /\ last' = [NoCall EXCEPT !.op = "indexOne", !.id = id, !.ret = <<TRUE>>]
       ELSE /\ db' = Connected
            /\ last' = [NoCall EXCEPT !.op = "indexOne", !.id = id, !.ret = <<FALSE>>]
    /\ UNCHANGED StoreVars

\* the dict search_uuid_in_path builds from a row
SearchResult(row) ==
    [UUID |-> row.UUID, Genre |-> row.GENRE, Author |-> row.AUTHOR,
     DateCreated |-> row.DATE_CREATED, Preview |-> row.PREVIEW, Prefix |-> row.PREFIX]

\* search_uuid_in_path(id, PAGEDIR)
Search(id) ==
    /\ last' =
         IF ~db.file \/ fs[id].meta = None
         THEN [NoCall EXCEPT !.op = "search", !.id = id, !.ret = None]
         ELSE IF ~db.table
         THEN [NoCall EXCEPT !.op = "search", !.id = id, !.err = "OperationalError"]
         ELSE IF id \in DOMAIN db.rows
         THEN [NoCall EXCEPT !.op = "search", !.id = id,
                             !.ret = Some(SearchResult(db.rows[id]))]
         ELSE [NoCall EXCEPT !.op = "search", !.id = id, !.ret = None]
    /\ UNCHANGED <<db, StoreVars>>

\* the columns listPage selects
ListItem(row) ==
    [UUID |-> row.UUID, GENRE |-> row.GENRE, AUTHOR |-> row.AUTHOR,
     DATE_CREATED |-> row.DATE_CREATED, PREVIEW |-> row.PREVIEW]

\* the rows in ascending order of DATE_CREATED
Orders_asc(rows) ==
    {o \in [1..Cardinality(DOMAIN rows) -> DOMAIN rows] :
        /\ \A i, j \in DOMAIN o : i # j => o[i] # o[j]
        /\ \A i, j \in DOMAIN o :
              i < j => rows[o[i]].DATE_CREATED <= rows[o[j]].DATE_CREATED}

\* the orders ORDER BY DATE_CREATED DESC can return the rows in
Orders(rows) ==
    {o \in [1..Cardinality(DOMAIN rows) -> DOMAIN rows] :
        /\ \A i, j \in DOMAIN o : i # j => o[i] # o[j]
        /\ \A i, j \in DOMAIN o :
              i < j => rows[o[i]].DATE_CREATED >= rows[o[j]].DATE_CREATED}

\* LIMIT ? OFFSET ? on the ordered rows
Slice(o, offset, limit) ==
    [k \in 1..Min2(limit, IF Len(o) > offset THEN Len(o) - offset ELSE 0) |-> o[offset + k]]

\* listPage(offset, limit, query): with a query the statements name the
\* column title, which pages_index does not have
ListPage(offset, limit, query) ==
    /\ db' = [db EXCEPT !.file = TRUE]
    /\ IF ~db.table \/ query # ""
       THEN last' = [NoCall EXCEPT !.op = "list_pages", !.arg = query,
                                   !.index = Some(<<offset, limit>>),
                                   !.err = "OperationalError"]
       ELSE \E o \in Orders(db.rows) :
               last' = [NoCall EXCEPT
                           !.op = "list_pages", !.arg = query,
                           !.index = Some(<<offset, limit>>),
                           !.ret = [items |-> [k \in DOMAIN Slice(o, offset, limit) |->
                                                 ListItem(db.rows[Slice(o, offset, limit)[k]])],
                                    total |-> Cardinality(DOMAIN db.rows)]]
    /\ UNCHANGED StoreVars

\* DButils.init_db: connects and runs GLOBALSCHEMA, which creates reads
InitDb ==
    /\ ~db.locked \/ db.reads # None
    /\ db' = [db EXCEPT !.file = TRUE,
                        !.reads = IF @ = None THEN Some(NoFiles) ELSE @]
    /\ last' = [NoCall EXCEPT !.op = "init_db"]
    /\ UNCHANGED StoreVars

\* the connection indexToDB left open is closed when the interpreter
\* collects it or exits, which rolls its transaction back
Collect ==
    /\ db.locked
    /\ db' = [db EXCEPT !.locked = FALSE]
    /\ UNCHANGED <<last, StoreVars>>

\* a file of a page directory is lost, or meta.json is left cut short
Damages == {"meta.json missing", "latest.md missing", "meta.json unparseable"}

Damage(id, what) ==
    /\ crashes < MaxCrashes
    /\ fs[id].dir
    /\ \/ /\ what = "meta.json missing"
          /\ fs[id].meta # None
          /\ fs' = [fs EXCEPT ![id].meta = None]
       \/ /\ what = "latest.md missing"
          /\ fs[id].latest # None
          /\ fs' = [fs EXCEPT ![id].latest = None]
       \/ /\ what = "meta.json unparseable"
          /\ fs[id].meta # None
          /\ fs[id].meta # Some(Garbage)
          /\ fs' = [fs EXCEPT ![id].meta = Some(Garbage)]
    /\ crashes' = crashes + 1
    /\ UNCHANGED <<now, last, writes, given, commits, procs, raced, db, cache, diffIn, diffOut>>

\* the texts pages are given in the index specification
IndexTexts == {<<>>, <<"a">>, <<"b", NL, "a">>}

ListOffsets == 0..2

ListLimits == 0..2

Queries == {"", "A"}

IndexNext ==
    \/ /\ now <= MaxIndexTime
       /\ \/ \E x \in IndexTexts, i \in Ids : InitPage("T", "A", "", x, i)
          \/ \E id \in Ids, x \in IndexTexts : CommitDiff(id, x, "E", "edit")
    \/ \E id \in Ids, what \in Damages : Damage(id, what)
    \/ IndexToDB
    \/ \E id \in Ids : InsertPage(id)
    \/ \E id \in Ids : Search(id)
    \/ \E offset \in ListOffsets, limit \in ListLimits, query \in Queries :
          ListPage(offset, limit, query)
    \/ InitDb
    \/ Collect

IndexSpec == Init /\ [][IndexNext]_vars

(* ------------------- the admin routes on the store --------------------- *)
\* Of a row of reads the title and the creation date are kept; creator, type
\* and preview are written once and play no part here.

\* admin.createPage: the row is inserted into reads and committed under a
\* fresh uuid4; then init_page is called with the keyword date_iso, which it
\* does not have, and without genre: TypeError, no page directory is made
CreatePage(title) ==
    /\ \E id \in Ids :
          /\ Uuid4(id)
          /\ db.reads # None => id \notin DOMAIN db.reads[1]
          /\ IF db.reads = None \/ db.locked
             THEN /\ db' = [db EXCEPT !.file = TRUE]
                  /\ last' = [NoCall EXCEPT !.op = "createPage", !.id = id,
                                            !.err = "OperationalError"]
             ELSE /\ db' = [db EXCEPT !.reads =
                              Some((id :> [title |-> IF title = "" THEN "Untitled" ELSE title,
                                           created |-> now]) @@ @[1])]
                  /\ last' = [NoCall EXCEPT !.op = "createPage", !.id = id,
                                            !.err = "TypeError"]
    /\ UNCHANGED StoreVars

\* admin.deletePage(uuid): DELETE FROM reads WHERE uuid = ?, nothing else
DeletePage(id) ==
    /\ IF db.reads = None \/ db.locked
       THEN /\ db' = [db EXCEPT !.file = TRUE]
            /\ last' = [NoCall EXCEPT !.op = "deletePage", !.id = id,
                                      !.err = "OperationalError"]
       ELSE /\ db' = [db EXCEPT !.reads =
                        Some([k \in DOMAIN @[1] \ {id} |-> @[1][k]])]
            /\ last' = [NoCall EXCEPT !.op = "deletePage", !.id = id]
    /\ UNCHANGED StoreVars

AdminNext ==
    \/ /\ now <= MaxIndexTime
       /\ \/ \E x \in IndexTexts, i \in Ids : InitPage("T", "A", "", x, i)
          \/ \E id \in Ids, x \in IndexTexts : CommitDiff(id, x, "E", "edit")
          \/ \E id \in Ids : RebuildLatest(id)
    \/ \E id \in Ids : ViewVersion(id, None)
    \/ \E id \in Ids : ListDiffs(id)
    \/ IndexToDB
    \/ \E id \in Ids : InsertPage(id)
    \/ \E id \in Ids : Search(id)
    \/ ListPage(0, 1, "")
    \/ InitDb
    \/ \E t \in Titles : CreatePage(t)
    \/ \E id \in Ids : DeletePage(id)

AdminSpec == Init /\ [][AdminNext]_vars

(* --------------------- the cached listing ReadsAPI --------------------- *)

\* what the cache calls leave alone
PageVars == <<fs, now, writes, given, commits, procs, crashes, raced, diffIn, diffOut>>

\* the dict made of a row of reads
ReadsItem(rows, k) == [uuid |-> k, title |-> rows[k].title, created |-> rows[k].created]

\* the orders ORDER BY created DESC can return the rows of reads in
ReadsOrders(rows) ==
    {o \in [1..Cardinality(DOMAIN rows) -> DOMAIN rows] :
        /\ \A i, j \in DOMAIN o : i # j => o[i] # o[j]
        /\ \A i, j \in DOMAIN o : i < j => rows[o[i]].created >= rows[o[j]].created}

\* the results pageList(offset, limit) can compute from the table
PageListResults(rows, offset, limit) ==
    {[items |-> [k \in DOMAIN Slice(o, offset, limit) |->
                    ReadsItem(rows, Slice(o, offset, limit)[k])],
      total |-> Cardinality(DOMAIN rows)] : o \in ReadsOrders(rows)}

\* the result read(uuid) computes from the table; no <uuid>.md file of the
\* dated layout exists under PAGEDIR, the content is the preview
ReadResult(rows, uuid) == IF uuid \in DOMAIN rows THEN Some(ReadsItem(rows, uuid)) ELSE None

\* ReadsAPI.pageList(offset, limit) under lru_cache: a call whose arguments
\* are in the cache returns the stored result without running the function;
\* a call that raises stores nothing
PageList(offset, limit) ==
    IF <<offset, limit, "">> \in DOMAIN cache.pageList
    THEN /\ last' = [NoCall EXCEPT !.op = "pageList", !.index = Some(<<offset, limit>>),
                                   !.ret = cache.pageList[<<offset, limit, "">>]]
         /\ UNCHANGED <<db, cache, PageVars>>
    ELSE /\ IF db.reads = None
            THEN /\ last' = [NoCall EXCEPT !.op = "pageList",
                                           !.index = Some(<<offset, limit>>),
                                           !.err = "OperationalError"]
                 /\ UNCHANGED cache
            ELSE \E r \in PageListResults(db.reads[1], offset, limit) :
                    /\ last' = [NoCall EXCEPT !.op = "pageList",
                                              !.index = Some(<<offset, limit>>), !.ret = r]
                    /\ cache' = [cache EXCEPT !.pageList = (<<offset, limit, "">> :> r) @@ @]
         /\ db' = [db EXCEPT !.file = TRUE]
         /\ UNCHANGED PageVars

\* ReadsAPI.read(uuid) under lru_cache; None is a result like any other
ReadPage(uuid) ==
    IF uuid \in DOMAIN cache.read
    THEN /\ last' = [NoCall EXCEPT !.op = "read", !.id = uuid, !.ret = cache.read[uuid]]
         /\ UNCHANGED <<db, cache, PageVars>>
    ELSE /\ IF db.reads = None
            THEN /\ last' = [NoCall EXCEPT !.op = "read", !.id = uuid,
                                           !.err = "OperationalError"]
                 /\ UNCHANGED cache
            ELSE /\ last' = [NoCall EXCEPT !.op = "read", !.id = uuid,
                                           !.ret = ReadResult(db.reads[1], uuid)]
                 /\ cache' = [cache EXCEPT !.read =
                                 (uuid :> ReadResult(db.reads[1], uuid)) @@ @]
         /\ db' = [db EXCEPT !.file = TRUE]
         /\ UNCHANGED PageVars

\* the stems of the files dirPath.rglob("*.md") finds: base.md and latest.md
\* of the page directories
MdStems ==
    {n \in {"base", "latest"} :
        \E id \in Ids : IF n = "base" THEN fs[id].base # None ELSE fs[id].latest # None}

\* ReadsAPI.importFromDir: one row per .md file under PAGEDIR, keyed and
\* titled by the file stem (the texts of the model carry no front matter),
\* INSERT OR REPLACE, one commit, then clearCache()
ImportFromDir ==
    /\ IF \A id \in Ids : ~fs[id].dir
       THEN /\ last' = [NoCall EXCEPT !.op = "importFromDir", !.ret = <<FALSE>>]
            /\ UNCHANGED <<db, cache>>
       ELSE IF db.locked \/ (db.reads = None /\ MdStems # {})
       THEN /\ last' = [NoCall EXCEPT !.op = "importFromDir", !.err = "OperationalError"]
            /\ db' = [db EXCEPT !.file = TRUE]
            /\ UNCHANGED cache
       ELSE /\ last' = [NoCall EXCEPT !.op = "importFromDir", !.ret = <<TRUE>>]
            /\ db' = [db EXCEPT !.file = TRUE,
                                !.reads = IF @ = None THEN @
                                          ELSE Some([n \in MdStems |->
                                                        [title |-> n, created |-> now]] @@ @[1])]
            /\ cache' = NoCache
    /\ UNCHANGED PageVars

\* admin.editPage(uuid) with POST: UPDATE reads SET title = ?, preview = ?
EditPage(uuid, title) ==
    /\ IF db.reads = None \/ db.locked
       THEN /\ db' = [db EXCEPT !.file = TRUE]
            /\ last' = [NoCall EXCEPT !.op = "editPage", !.id = uuid,
                                      !.err = "OperationalError"]
       ELSE /\ db' = [db EXCEPT !.reads =
                        Some([k \in DOMAIN @[1] |->
                                IF k = uuid THEN [@[1][k] EXCEPT !.title = title]
                                ELSE @[1][k]])]
            /\ last' = [NoCall EXCEPT !.op = "editPage", !.id = uuid]
    /\ UNCHANGED StoreVars

\* the uuids asked for: a page made by createPage and a row made by the import
ReadIds == {"p2", "latest"}

PageOffsets == {0}

PageLimits == {2}

NewTitles == {"U"}

CacheNext ==
    \/ /\ \A id \in Ids : ~fs[id].dir
       /\ InitPage("T", "A", "", <<>>, "p1")
    \/ InitDb
    \/ \E t \in Titles : CreatePage(t)
    \/ \E uuid \in ReadIds, t \in NewTitles : EditPage(uuid, t)
    \/ \E uuid \in ReadIds : DeletePage(uuid)
    \/ ImportFromDir
    \/ \E offset \in PageOffsets, limit \in PageLimits : PageList(offset, limit)
    \/ \E uuid \in ReadIds : ReadPage(uuid)

CacheSpec == Init /\ [][CacheNext]_vars

(* ------------------- replay on deltas of any origin -------------------- *)
\* A page whose delta files were each stored by some commit, not necessarily
\* one after the other on the text the page has now: init_page on the same
\* identifier leaves the delta files and starts the page again.

\* the texts the stored deltas lead from and to, and the base texts
ReplayTexts == {<<>>, <<"a">>, <<NL>>}

\* the delta commit_diff stores for a pair of texts
PairDelta(pair) == DeltaText(splitlines(pair[1]), splitlines(pair[2]))

\* lists of one or two pairs of texts
PairLists == UNION {[1..n -> ReplayTexts \X ReplayTexts] : n \in 1..2}

ReplayInit ==
    /\ \E base_text \in ReplayTexts, pairs \in PairLists :
          fs = [id \in Ids |->
                  IF id = "p1"
                  THEN [InitMeta(InitLatest(InitBase(InitDirs(NoPage), base_text), base_text),
                                 id, "T", "A", "", base_text, 0)
                        EXCEPT !.diffs = [stem \in {zero_pad(k) : k \in DOMAIN pairs} |->
                                             PairDelta(pairs[int(stem)])]]
                  ELSE NoPage]
    /\ CallsInit
    /\ diffIn = [a |-> <<>>, b |-> <<>>]
    /\ diffOut = NoDiff

ReplayNext ==
    \/ \E k \in {None} \cup {Some(n) : n \in ViewIndexes} : ViewVersion("p1", k)
    \/ RebuildLatest("p1")

ReplaySpec == ReplayInit /\ [][ReplayNext]_vars

(* ---------------------- the diff engine on its own --------------------- *)

\* line sequences: the texts that are empty or end with "\n", split
LineSeqsUpTo(n) ==
    {splitlines(x) : x \in {y \in TextsUpTo(n) : y = <<>> \/ y[Len(y)] = NL}}

RECURSIVE Size(_)
Size(lines) == IF lines = <<>> THEN 0 ELSE Len(Head(lines)) + 1 + Size(Tail(lines))

DiffInit ==
    /\ StoreInit
    /\ \E k \in 0..MaxDiffSize :
         \E x \in {z \in LineSeqsUpTo(k) : Size(z) = k}, y \in LineSeqsUpTo(MaxDiffSize - k) :
            diffIn = [a |-> x, b |-> y]
    /\ diffOut = NoDiff

\* commit_diff computes the delta of the two line sequences and writes it
DiffStore ==
    /\ diffOut.phase = "input"
    /\ diffOut' = [diffOut EXCEPT !.phase = "stored",
                                  !.file = DeltaText(diffIn.a, diffIn.b)]
    /\ UNCHANGED <<fs, now, last, writes, given, commits, procs, crashes, raced, db, cache, diffIn>>

\* apply_diffs_to_text reads the delta file back and restores a side
DiffRestore ==
    /\ diffOut.phase = "stored"
    /\ diffOut' = [diffOut EXCEPT !.phase = "restored",
                                  !.new = RestoreSide(diffOut.file, 2),
                                  !.old = RestoreSide(diffOut.file, 1)]
    /\ UNCHANGED <<fs, now, last, writes, given, commits, procs, crashes, raced, db, cache, diffIn>>

DiffNext == DiffStore \/ DiffRestore

DiffSpec == DiffInit /\ [][DiffNext]_vars

(* --------------- the same calls, one file operation per step ----------- *)
\* procs[w] is the call worker w is executing: its position and its locals.

\* calls that overlap on a page go unrecorded
Enter_unmarked(w, c) ==
    /\ procs' = [procs EXCEPT ![w] = [c EXCEPT !.start = fs[c.id]]]
    /\ UNCHANGED <<crashes, raced, db, cache, diffIn, diffOut>>

\* worker w starts the call c on page c.id.  c.start is the page as the call
\* finds it; shared records that another call on the same page was in
\* progress at some time during the call.
Enter(w, c) ==
    LET busy(o) == o # w /\ procs[o].pc # "idle" /\ procs[o].id = c.id
    IN  /\ procs' = [o \in Workers |->
                        IF o = w
                        THEN [c EXCEPT !.start = fs[c.id],
                                       !.shared = \E x \in Workers : busy(x)]
                        ELSE IF busy(o) THEN [procs[o] EXCEPT !.shared = TRUE]
                        ELSE procs[o]]
        /\ raced' = [raced EXCEPT ![c.id] = @ \/ \E x \in Workers : busy(x)]
        /\ UNCHANGED <<crashes, db, cache, diffIn, diffOut>>

\* init_page up to ensure_dir(diffs_dir)
BeginInit(w, title, author, genre, base_text, id_arg) ==
    /\ procs[w].pc = "idle"
    /\ now + 3 <= MaxTime
    /\ \E id \in Ids :
        /\ IF id_arg \in {NoId, ""} THEN Uuid4(id) ELSE id = id_arg
        /\ Enter(w, [Idle EXCEPT !.pc = "i_base", !.op = "init", !.id = id,
                              !.arg = id_arg, !.text = base_text,
                              !.title = title, !.author = author,
                              !.genre = genre, !.existed = fs[id].dir])
        /\ fs' = [fs EXCEPT ![id] = InitDirs(@)]
    /\ last' = NoCall
    /\ UNCHANGED <<now, writes, given, commits>>

StepInitBase(w) ==
    /\ procs[w].pc = "i_base"
    /\ fs' = [fs EXCEPT ![procs[w].id] = InitBase(@, procs[w].text)]
    /\ procs' = [procs EXCEPT ![w].pc = "i_latest"]
    /\ UNCHANGED <<now, last, writes, given, commits, Others>>

StepInitLatest(w) ==
    /\ procs[w].pc = "i_latest"
    /\ fs' = [fs EXCEPT ![procs[w].id] = InitLatest(@, procs[w].text)]
    /\ procs' = [procs EXCEPT ![w].pc = "i_meta"]
    /\ UNCHANGED <<now, last, writes, given, commits, Others>>

\* save_meta and return id_
StepInitMeta(w) ==
    LET c == procs[w] IN
    /\ c.pc = "i_meta"
    /\ fs' = [fs EXCEPT ![c.id] =
                InitMeta(@, c.id, c.title, c.author, c.genre, c.text, now)]
    /\ now' = now + 3
    /\ last' = [NoCall EXCEPT !.op = "init", !.id = c.id, !.arg = c.arg,
                              !.text = c.text, !.ret = <<c.id>>,
                              !.existed = c.existed]
    /\ writes' = [writes EXCEPT ![c.id] = Append(@, "init")]
    /\ given' = [given EXCEPT ![c.id] = Some(c.text)]
    /\ procs' = [procs EXCEPT ![w] = Idle]
    /\ UNCHANGED <<commits, Others>>

\* commit_diff up to diff_hash: the existence check, the read of the old
\* text (base_path.read_text raises when neither latest.md nor base.md
\* exists) and the delta
BeginCommit(w, id, new_text, author, message) ==
    /\ procs[w].pc = "idle"
    /\ IF ~fs[id].dir \/ ~HasOldText(fs[id])
       THEN /\ last' = [NoCall EXCEPT !.op = "commit", !.id = id, !.text = new_text,
                                      !.err = "FileNotFoundError",
                                      !.existed = fs[id].dir]
            /\ UNCHANGED <<fs, now, writes, given, commits, procs, Others>>
       ELSE /\ now + 3 <= MaxTime
            /\ Enter(w,
                   [Idle EXCEPT !.pc = "c_idx", !.op = "commit", !.id = id,
                                !.text = new_text, !.author = author,
                                !.message = message, !.existed = TRUE,
                                !.diff_text = DeltaText(splitlines(CommitOldText(fs[id])),
                                                        splitlines(new_text))])
            /\ last' = NoCall
            /\ UNCHANGED <<fs, now, writes, given, commits>>

StepCommitIndex(w) ==
    /\ procs[w].pc = "c_idx"
    /\ procs' = [procs EXCEPT ![w].pc = "c_diff",
                              ![w].idx = next_diff_index(fs[procs[w].id])]
    /\ UNCHANGED <<fs, now, last, writes, given, commits, Others>>

StepCommitWriteDiff(w) ==
    /\ procs[w].pc = "c_diff"
    /\ fs' = [fs EXCEPT ![procs[w].id] = CommitWriteDiff(@, procs[w].idx, procs[w].diff_text)]
    /\ procs' = [procs EXCEPT ![w].pc = "c_json"]
    /\ writes' = [writes EXCEPT ![procs[w].id] = Append(@, "delta")]
    /\ UNCHANGED <<now, last, given, commits, Others>>

StepCommitWriteJson(w) ==
    LET c == procs[w] IN
    /\ c.pc = "c_json"
    /\ fs' = [fs EXCEPT ![c.id] =
                CommitWriteJson(@, c.idx, c.author, c.message,
                                sha256_of_text(c.diff_text), now)]
    /\ now' = now + 1
    /\ procs' = [procs EXCEPT ![w].pc = "c_meta"]
    /\ UNCHANGED <<last, writes, given, commits, Others>>

StepCommitMeta(w) ==
    /\ procs[w].pc = "c_meta"
    /\ fs' = [fs EXCEPT ![procs[w].id] = CommitMeta(@, now)]
    /\ now' = now + 1
    /\ procs' = [procs EXCEPT ![w].pc = "r_read"]
    /\ UNCHANGED <<last, writes, given, commits, Others>>

\* a standalone rebuild_latest call: the existence check
BeginRebuild(w, id) ==
    /\ procs[w].pc = "idle"
    /\ IF ~fs[id].dir
       THEN /\ last' = [NoCall EXCEPT !.op = "rebuild", !.id = id,
                                      !.err = "FileNotFoundError"]
            /\ UNCHANGED <<fs, now, writes, given, commits, procs, Others>>
       ELSE /\ now + 1 <= MaxTime
            /\ Enter(w,
                   [Idle EXCEPT !.pc = "r_read", !.op = "rebuild", !.id = id,
                                !.existed = TRUE])
            /\ last' = NoCall
            /\ UNCHANGED <<fs, now, writes, given, commits>>

\* rebuild_latest reads base.md and the delta files
\* the call of worker w ends with an exception
Raise(w, err) ==
    /\ procs' = [procs EXCEPT ![w] = Idle]
    /\ last' = [NoCall EXCEPT !.op = procs[w].op, !.id = procs[w].id,
                              !.text = procs[w].text, !.err = err,
                              !.existed = procs[w].existed]

StepRebuildRead(w) ==
    /\ procs[w].pc = "r_read"
    /\ IF fs[procs[w].id].base = None
       THEN /\ Raise(w, "FileNotFoundError")
            /\ UNCHANGED <<fs, now, writes, given, commits, Others>>
       ELSE /\ procs' = [procs EXCEPT ![w].pc = "r_tmp",
                                      ![w].new_text = RebuildText(fs[procs[w].id])]
            /\ UNCHANGED <<fs, now, last, writes, given, commits, Others>>

\* tmp.write_text opens .latest.tmp for writing, which truncates it
StepRebuildOpenTmp(w) ==
    /\ procs[w].pc = "r_tmp"
    /\ fs' = [fs EXCEPT ![procs[w].id] = RebuildOpenTmp(@)]
    /\ procs' = [procs EXCEPT ![w].pc = "r_write", ![w].fd = "tmp"]
    /\ UNCHANGED <<now, last, writes, given, commits, Others>>

\* one temporary file for the whole store instead of one per page directory
StepRebuildWriteTmp_shared(w) ==
    /\ procs[w].pc = "r_write"
    /\ fs' = [id \in Ids |-> RebuildWriteTmp(fs[id], procs[w].new_text)]
    /\ procs' = [procs EXCEPT ![w].pc = "r_replace", ![w].fd = "none"]
    /\ UNCHANGED <<now, last, writes, given, commits, Others>>

\* the write of tmp.write_text goes through the descriptor the call opened:
\* to .latest.tmp, to latest.md when another rebuild has renamed the file in
\* the meantime, to no file of the directory when that latest.md was
\* replaced in turn
StepRebuildWriteTmp(w) ==
    LET c    == procs[w]
        page == fs[c.id]
    IN
    /\ c.pc = "r_write"
    /\ fs' = [fs EXCEPT ![c.id] =
                CASE c.fd = "tmp"    -> RebuildWriteTmp(page, Overlay(page.tmp[1], c.new_text))
                  [] c.fd = "latest" -> [page EXCEPT !.latest = Some(Overlay(page.latest[1], c.new_text))]
                  [] OTHER           -> page]
    /\ procs' = [procs EXCEPT ![w].pc = "r_replace", ![w].fd = "none"]
    /\ UNCHANGED <<now, last, writes, given, commits, Others>>

\* tmp.replace(latest_path) raises when .latest.tmp is not there
StepRebuildReplace(w) ==
    /\ procs[w].pc = "r_replace"
    /\ IF fs[procs[w].id].tmp = None
       THEN /\ Raise(w, "FileNotFoundError")
            /\ UNCHANGED <<fs, now, writes, given, commits, Others>>
       ELSE /\ fs' = [fs EXCEPT ![procs[w].id] = RebuildReplace(@)]
            /\ procs' = [o \in Workers |->
                           IF o = w THEN [procs[o] EXCEPT !.pc = "r_meta"]
                           ELSE IF procs[o].id = procs[w].id /\ procs[o].fd = "tmp"
                           THEN [procs[o] EXCEPT !.fd = "latest"]
                           ELSE IF procs[o].id = procs[w].id /\ procs[o].fd = "latest"
                           THEN [procs[o] EXCEPT !.fd = "gone"]
                           ELSE procs[o]]
            /\ UNCHANGED <<now, last, writes, given, commits, Others>>

\* the meta update of rebuild_latest and the return of the call
StepRebuildMeta(w) ==
    LET c    == procs[w]
        file == DiffName(zero_pad(c.idx))
    IN
    /\ c.pc = "r_meta"
    /\ fs' = [fs EXCEPT ![c.id] = RebuildMeta(@, c.new_text, now)]
    /\ now' = now + 1
    /\ last' = IF c.op = "commit"
               THEN [NoCall EXCEPT !.op = "commit", !.id = c.id, !.text = c.text,
                                   !.ret = file, !.existed = TRUE]
               ELSE [NoCall EXCEPT !.op = "rebuild", !.id = c.id,
                                   !.ret = <<"latest.md">>, !.existed = TRUE]
    /\ writes' = [writes EXCEPT ![c.id] = Append(@, c.op)]
    /\ commits' = IF c.op = "commit"
                  THEN [commits EXCEPT ![c.id] =
                          Append(@, [new_text |-> c.text, latest |-> fs'[c.id].latest,
                                     file |-> file])]
                  ELSE commits
    /\ procs' = [procs EXCEPT ![w] = Idle]
    /\ UNCHANGED <<given, Others>>

StepView(w, id, index) == procs[w].pc = "idle" /\ ViewVersion(id, index)

StepList(w, id) == procs[w].pc = "idle" /\ ListDiffs(id)

\* the process of worker w is killed in the middle of a call: what the call
\* wrote so far stays, the rest of the call never runs
Interrupt(w) ==
    /\ procs[w].pc # "idle"
    /\ crashes < MaxCrashes
    /\ crashes' = crashes + 1
    /\ Raise(w, "interrupted")
    /\ UNCHANGED <<fs, now, writes, given, commits, raced, db, cache, diffIn, diffOut>>

\* worker w calls init_page, commit_diff or rebuild_latest
BeginStep(w) ==
    \/ \E t \in Titles, a \in Authors, g \in Genres, x \in InputTexts, i \in IdArgs :
          BeginInit(w, t, a, g, x, i)
    \/ \E id \in Ids, x \in InputTexts, a \in CommitAuthors, m \in Messages :
          BeginCommit(w, id, x, a, m)
    \/ \E id \in Ids : BeginRebuild(w, id)

\* the next file operation of the call worker w is executing
ContinueStep(w) ==
    \/ StepInitBase(w)
    \/ StepInitLatest(w)
    \/ StepInitMeta(w)
    \/ StepCommitIndex(w)
    \/ StepCommitWriteDiff(w)
    \/ StepCommitWriteJson(w)
    \/ StepCommitMeta(w)
    \/ StepRebuildRead(w)
    \/ StepRebuildOpenTmp(w)
    \/ StepRebuildWriteTmp(w)
    \/ StepRebuildReplace(w)
    \/ StepRebuildMeta(w)

\* one step of a call of worker w that writes
WriteStep(w) == BeginStep(w) \/ ContinueStep(w)

\* a read-only call of worker w: view_version or list_diffs
ReadStep(w) ==
    \/ \E id \in Ids, k \in {None} \cup {Some(n) : n \in ViewIndexes} :
          StepView(w, id, k)
    \/ \E id \in Ids : StepList(w, id)

\* calls serialized by the caller
StepNext == \E w \in Procs : WriteStep(w) \/ ReadStep(w)

StepSpec == Init /\ [][StepNext]_vars

\* serialized calls, any of which can be interrupted
CrashNext == \E w \in Procs : WriteStep(w) \/ Interrupt(w)

CrashSpec == Init /\ [][CrashNext]_vars

(* ------------------------- concurrent callers -------------------------- *)

\* get_latest_text(id_), called by a reader while writers are at work.  The
\* exists() test and the read are one step: nothing removes latest.md.
GetLatestText(id) ==
    /\ last' = IF fs[id].latest = None
               THEN [NoCall EXCEPT !.op = "latest", !.id = id,
                                   !.err = "FileNotFoundError",
                                   !.existed = fs[id].dir]
               ELSE [NoCall EXCEPT !.op = "latest", !.id = id,
                                   !.ret = fs[id].latest[1], !.existed = TRUE]
    /\ UNCHANGED <<fs, now, writes, given, commits, procs, Others>>

\* writing calls that returned or are in progress
RECURSIVE CountCalls(_)
CountCalls(log) ==
    IF log = <<>> THEN 0
    ELSE (IF Head(log) = "delta" THEN 0 ELSE 1) + CountCalls(Tail(log))

RECURSIVE SumCalls(_)
SumCalls(S) ==
    IF S = {} THEN 0
    ELSE LET id == CHOOSE x \in S : TRUE
         IN  CountCalls(writes[id]) + SumCalls(S \ {id})

CallsStarted == SumCalls(Ids) + Cardinality({w \in Workers : procs[w].pc # "idle"})

\* one writer, and a reader that reads latest.md between any two file
\* operations of the writer
ReaderNext ==
    \/ \E w \in Procs : WriteStep(w)
    \/ \E id \in Ids : GetLatestText(id)

ReaderSpec == Init /\ [][ReaderNext]_vars

\* a call goes to a caller that is free, to w1 when both are
Free(w) == procs[w].pc = "idle" /\ (w = "w1" \/ procs["w1"].pc # "idle")

\* two callers whose file operations interleave freely
ConcNext ==
    \/ \E w \in Workers : CallsStarted < MaxConcCalls /\ Free(w) /\ BeginStep(w)
    \/ \E w \in Workers : ContinueStep(w)

ConcSpec == Init /\ [][ConcNext]_vars

(* ------------------------------ properties ----------------------------- *)

\* a text in canonical form: a final newline added when it is non-empty and
\* has none
WithFinalNewline(t) == IF t = <<>> \/ t[Len(t)] = NL THEN t ELSE t \o <<NL>>

\* the name of the k-th delta file, 001.diff, 002.diff, ..., for k < 10
Numbered(k) == <<"0", "0", DigitChars[k + 1], ".diff">>

LastWrite(id) == IF writes[id] = <<>> THEN "none" ELSE writes[id][Len(writes[id])]

\* C1: the delta stored for two line sequences A and B, read back and split
\* into lines, restores to exactly B on the NEW side and to exactly A on the
\* OLD side.
RoundTrip ==
    diffOut.phase = "restored" =>
        /\ diffOut.new = diffIn.b
        /\ diffOut.old = diffIn.a

\* a restored delta that holds a hint line and the empty line the hint's own
\* "\n" leaves behind, for two different non-empty sequences
RoundTripWitness ==
    /\ diffOut.phase = "restored"
    /\ diffIn.a # <<>> /\ diffIn.b # <<>> /\ diffIn.a # diffIn.b
    /\ \E k \in 1..Len(splitlines(diffOut.file)) :
          LET ln == splitlines(diffOut.file)[k] IN Len(ln) > 0 /\ ln[1] = "?"
    /\ \E k \in 1..Len(splitlines(diffOut.file)) : splitlines(diffOut.file)[k] = <<>>
    /\ diffOut.new = diffIn.b

\* C2: view(id, k) for 1 <= k <= n returns the latest text as it was stored
\* right after the k-th commit returned, whatever was committed later.
ChainIntegrity ==
    (last.op = "view" /\ last.err = "" /\ last.index # None) =>
        LET k == last.index[1] IN
        (1 <= k /\ k <= Len(commits[last.id])) =>
            Some(last.ret) = commits[last.id][k].latest

\* view(id, 1) after two commits that left different latest texts
ChainIntegrityWitness ==
    /\ last.op = "view" /\ last.err = "" /\ last.index = Some(1)
    /\ Len(commits[last.id]) = 2
    /\ commits[last.id][1].latest # commits[last.id][2].latest
    /\ Some(last.ret) = commits[last.id][1].latest

\* C3 as claimed: view(id, k) for k <= 0 returns exactly the text init was
\* given, for every base text.
ViewBaseVerbatim ==
    (last.op = "view" /\ last.err = "" /\ last.index # None /\ given[last.id] # None) =>
        (last.index[1] <= 0 => last.ret = given[last.id][1])

\* C3 as amended: view(id, k) for k <= 0 returns the base text in canonical
\* form: unchanged when it is empty or ends with a newline, with a final
\* newline added otherwise; the number of deltas committed plays no part.
ViewBaseNormalized ==
    (last.op = "view" /\ last.err = "" /\ last.index # None /\ given[last.id] # None) =>
        (last.index[1] <= 0 =>
            /\ fs[last.id].base = given[last.id]
            /\ last.ret = WithFinalNewline(given[last.id][1]))

\* view(id, 0) of a page whose base text has no final newline, after a commit
ViewBaseWitness ==
    /\ last.op = "view" /\ last.err = "" /\ last.index = Some(0)
    /\ given[last.id] = Some(<<"a">>)
    /\ commits[last.id] # <<>>
    /\ last.ret = <<"a", NL>>

\* C4 as claimed: after a commit the latest snapshot equals the newText of
\* that commit verbatim, and the deltas are numbered 001, 002, ...
LatestVerbatim ==
    \A id \in Ids :
        (LastWrite(id) \in {"commit", "rebuild"} /\ commits[id] # <<>>) =>
            /\ fs[id].latest = Some(commits[id][Len(commits[id])].new_text)
            /\ \A k \in 1..Len(commits[id]) : commits[id][k].file = Numbered(k)

\* C4 as amended: after a commit, and after a rebuild that follows it, the
\* latest snapshot equals the newText of the last commit in canonical form
\* (a final newline added when newText is non-empty and has none), and the
\* deltas are numbered 001, 002, ... in commit order.
LatestNormalized ==
    \A id \in Ids :
        (LastWrite(id) \in {"commit", "rebuild"} /\ commits[id] # <<>>) =>
            /\ fs[id].latest = Some(WithFinalNewline(commits[id][Len(commits[id])].new_text))
            /\ \A k \in 1..Len(commits[id]) : commits[id][k].file = Numbered(k)
            /\ DOMAIN fs[id].diffs = {SubSeq(Numbered(k), 1, 3) : k \in 1..Len(commits[id])}

\* two commits on a page, the second with a text that has no final newline
LatestWitness ==
    \E id \in Ids :
        /\ LastWrite(id) = "commit"
        /\ Len(commits[id]) = 2
        /\ commits[id][2].new_text = <<"a">>
        /\ commits[id][1].new_text # <<"a">>
        /\ fs[id].latest = Some(<<"a", NL>>)
        /\ commits[id][2].file = <<"0", "0", "2", ".diff">>

\* C5: after completed calls the delta files of a page carry exactly the
\* indices 1..meta.diffCount.
IndicesMatchDiffCount ==
    \A id \in Ids :
        fs[id].meta # None =>
            DOMAIN fs[id].diffs = {SubSeq(Numbered(k), 1, 3) : k \in 1..fs[id].meta[1].diffCount}

\* C6: in every state of the metadata file, between the file writes of
\* commit and rebuild too, meta.version equals meta.diffCount.
VersionIsDiffCount ==
    \A id \in Ids :
        fs[id].meta # None =>
            LET m == fs[id].meta[1] IN
            /\ "version" \in m.keys
            /\ "diffCount" \in m.keys
            /\ m.version = m.diffCount

\* a commit between its metadata update and the end of its rebuild
VersionWitness ==
    \E w \in Procs :
        /\ procs[w].op = "commit"
        /\ procs[w].pc = "r_replace"
        /\ fs[procs[w].id].meta[1].version = 2
        /\ fs[procs[w].id].meta[1].diffCount = 2

\* C7: after a successful rebuild, standalone or at the end of a commit,
\* meta.latestHash is non-null and is the SHA-256 of latest.md.
HashConsistency ==
    \A id \in Ids :
        LastWrite(id) \in {"commit", "rebuild"} =>
            /\ fs[id].latest # None
            /\ fs[id].meta[1].latestHash # Null
            /\ fs[id].meta[1].latestHash = sha256_of_text(fs[id].latest[1])

\* a commit has returned and the latest text is no longer the base text
HashWitness ==
    \E id \in Ids :
        /\ LastWrite(id) = "commit"
        /\ fs[id].meta[1].latestHash # fs[id].meta[1].baseHash
        /\ fs[id].meta[1].latestHash = sha256_of_text(fs[id].latest[1])

\* C8: a rebuild of a page whose last write was a rebuild leaves latest.md and
\* latestHash as they are and changes nothing but updatedAt.
RebuildIdempotent ==
    [][\A id \in Ids :
        (/\ LastWrite(id) = "rebuild"
         /\ writes'[id] = Append(writes[id], "rebuild")) =>
            /\ fs'[id].latest = fs[id].latest
            /\ fs'[id].meta[1].latestHash = fs[id].meta[1].latestHash
            /\ fs'[id] = [fs[id] EXCEPT !.meta =
                            Some([fs[id].meta[1] EXCEPT !.updatedAt = fs'[id].meta[1].updatedAt])]
            /\ \A other \in Ids \ {id} : fs'[other] = fs[other]]_vars

\* a second rebuild in a row has returned, on a page that has a delta
RebuildTwiceWitness ==
    \E id \in Ids :
        /\ Len(writes[id]) >= 3
        /\ writes[id][Len(writes[id])] = "rebuild"
        /\ writes[id][Len(writes[id]) - 1] = "rebuild"
        /\ commits[id] # <<>>
        /\ last.op = "rebuild" /\ last.id = id

\* C9: init with an id whose page directory exists fails with AlreadyExists
\* and leaves the page as it was.
InitExistingFails ==
    [][(last'.op = "init" /\ last'.existed /\ last' # last) =>
          (last'.err = "AlreadyExists" /\ fs' = fs)]_vars

\* C10: after init on a fresh identifier, base.md and latest.md hold
\* baseText, version and diffCount are 0, both hashes are the SHA-256 of
\* baseText, meta.uuid is the returned id and listDiffs is empty; the id is
\* the one supplied, or a new one when None or "" was supplied.
InitFresh ==
    (last.op = "init" /\ ~last.existed) =>
        LET page == fs[last.id]
            meta == page.meta[1]
        IN  /\ last.err = ""
            /\ last.ret = <<last.id>>
            /\ last.arg \notin {NoId, ""} => last.id = last.arg
            /\ page.base = Some(last.text)
            /\ page.latest = Some(last.text)
            /\ meta.keys = MetaKeys
            /\ meta.version = 0
            /\ meta.diffCount = 0
            /\ meta.baseHash = sha256_of_text(last.text)
            /\ meta.latestHash = sha256_of_text(last.text)
            /\ meta.uuid = last.id
            /\ list_diffs(page) = <<>>

\* init without an id created a second page, with a base text that has no
\* final newline, while the first page already has a delta
InitFreshWitness ==
    /\ last.op = "init" /\ ~last.existed /\ last.arg = NoId
    /\ last.text = <<"a">>
    /\ fs[last.id].latest = Some(<<"a">>)
    /\ \E other \in Ids \ {last.id} : fs[other].dir /\ commits[other] # <<>>

\* a delta file of the page was written and no rebuild of the page, standalone
\* or inside a commit, has completed since
Window(id) ==
    \E k \in 1..Len(writes[id]) :
        /\ writes[id][k] = "delta"
        /\ \A j \in (k + 1)..Len(writes[id]) : writes[id][j] \notin {"commit", "rebuild"}

\* C11: with one step per file write, meta.latestHash is null in exactly the
\* states in which a delta file has been persisted and the rebuild that
\* follows it has not completed, and non-null in every other state.
NullExactlyInWindow ==
    \A id \in Ids :
        fs[id].meta # None =>
            (fs[id].meta[1].latestHash = Null <=> Window(id))

\* C12: a rebuild that returns after an interrupted call leaves latest.md
\* equal to the replay of every delta file on disk, orphaned ones included,
\* latestHash equal to its hash and no temporary file; and a rebuild of a
\* page that has a delta file never fails, whatever diffCount says.
RebuildAfterInterrupt ==
    /\ (last.op = "rebuild" /\ last.err = "") =>
            LET page == fs[last.id] IN
            /\ page.latest = Some(view_version(page, None))
            /\ page.meta[1].latestHash = sha256_of_text(page.latest[1])
            /\ page.tmp = None
    /\ (last.op = "rebuild" /\ last.err = "FileNotFoundError") =>
            (~fs[last.id].dir \/ DOMAIN fs[last.id].diffs = {})

\* a commit was interrupted between its delta file and the metadata update:
\* diffCount is still 0, the rebuild that returned replayed 001.diff
RebuildAfterInterruptWitness ==
    /\ crashes = 1
    /\ last.op = "rebuild" /\ last.err = ""
    /\ DOMAIN fs[last.id].diffs = {<<"0", "0", "1">>}
    /\ DOMAIN fs[last.id].djson = {}
    /\ fs[last.id].meta[1].diffCount = 0
    /\ fs[last.id].latest # fs[last.id].base
    /\ fs[last.id].latest =
           Some(apply_diffs_to_text(<<>>, <<fs[last.id].diffs[<<"0", "0", "1">>]>>))

\* the state of a page in the state machine of the store
PageState(page) ==
    IF page.meta = None THEN "UNINITIALIZED"
    ELSE IF page.meta[1].latestHash = Null THEN "COMMITTED"
    ELSE IF page.meta[1].version = 0 THEN "CREATED"
    ELSE "REBUILT"

PageVersion(page) == IF page.meta = None THEN 0 ELSE page.meta[1].version

\* C13: a page only moves UNINITIALIZED -> CREATED(0), stable(v) ->
\* COMMITTED(v+1), COMMITTED(v) -> REBUILT(v) and REBUILT(v) -> REBUILT(v): it
\* never returns to CREATED or UNINITIALIZED, its version never decreases and
\* rises by exactly 1 per commit, and a commit returns in REBUILT(v).
PageStateMachine ==
    [][\A id \in Ids :
        LET s  == PageState(fs[id])
            v  == PageVersion(fs[id])
            t  == PageState(fs'[id])
            u  == PageVersion(fs'[id])
        IN  /\ (s # t \/ v # u) =>
                \/ s = "UNINITIALIZED" /\ t = "CREATED" /\ u = 0
                \/ s \in {"CREATED", "REBUILT"} /\ t = "COMMITTED" /\ u = v + 1
                \/ s = "COMMITTED" /\ t = "REBUILT" /\ u = v
            /\ (last' # last /\ last'.op = "commit" /\ last'.err = "" /\ last'.id = id) =>
                    (t = "REBUILT" /\ u = Len(commits'[id]))]_vars

\* C14: commit, rebuild and view addressed to an id that has no page
\* directory fail with a not-found error and leave the store as it was: no
\* directory and no file is created.
NotFoundLeavesStore ==
    [][(last'.op \in {"commit", "rebuild", "view"} /\ ~fs[last'.id].dir) =>
          (last'.err = "FileNotFoundError" /\ fs' = fs)]_vars

\* a rebuild of an unknown id has failed while another page holds a delta
NotFoundWitness ==
    /\ last.op = "rebuild" /\ last.err = "FileNotFoundError"
    /\ fs[last.id] = NoPage
    /\ \E other \in Ids \ {last.id} : DOMAIN fs[other].diffs # {}

\* C15: view, for every index, and listDiffs leave every stored file of every
\* page as it was and create no file or directory, whether they succeed or
\* fail.
ReadsLeaveStore ==
    [][(last'.op \in {"view", "list"}) => fs' = fs]_vars

\* view with an index beyond the number of deltas has returned the text of
\* the only delta, which is not the base text
ReadsWitness ==
    /\ last.op = "view" /\ last.err = "" /\ last.index = Some(2)
    /\ Len(commits[last.id]) = 1
    /\ Some(last.ret) = fs[last.id].latest
    /\ last.ret # WithFinalNewline(fs[last.id].base[1])

\* the positions of a call inside rebuild_latest
RebuildPcs == {"r_read", "r_tmp", "r_write", "r_replace", "r_meta"}

\* a page without its time stamps
NoTimes(page) ==
    [page EXCEPT
       !.meta  = IF @ = None THEN None
                 ELSE Some([@[1] EXCEPT !.date = 0, !.createdAt = 0, !.updatedAt = 0]),
       !.djson = [k \in DOMAIN @ |-> [@[k] EXCEPT !.createdAt = 0]]]

\* the page a call leaves behind when it runs from its first to its last
\* file operation with no step of another call in between
Serial(c) ==
    IF c.op = "init"
    THEN InitMeta(InitLatest(InitBase(InitDirs(c.start), c.text), c.text),
                  c.id, c.title, c.author, c.genre, c.text, 0)
    ELSE IF c.op = "commit"
    THEN CommitPage(c.start, c.text, c.author, c.message, 0)
    ELSE rebuild_latest(c.start, 0)

\* what that call returns
SerialRet(c) ==
    IF c.op = "init" THEN <<c.id>>
    ELSE IF c.op = "commit" THEN DiffName(zero_pad(next_diff_index(c.start)))
    ELSE <<"latest.md">>

\* the call of worker w returns at this step
Returns(w) == procs[w].pc # "idle" /\ procs'[w].pc = "idle"

\* C17: a file operation of a call on page p changes no file of another page
\* q, and a call whose steps interleave only with calls on other pages leaves
\* its page, time stamps aside, and returns its result exactly as if it had
\* run alone.
PagesIndependent ==
    [][/\ \A q \in Ids :
            fs'[q] # fs[q] =>
               \E w \in Workers : procs'[w] # procs[w] /\ q \in {procs[w].id, procs'[w].id}
       /\ \A w \in Workers :
            (Returns(w) /\ ~procs[w].shared) =>
               /\ last'.err = ""
               /\ last'.op = procs[w].op
               /\ last'.ret = SerialRet(procs[w])
               /\ NoTimes(fs'[procs[w].id]) = NoTimes(Serial(procs[w]))]_vars

\* a commit on one page returns while an init_page of the other page, begun
\* after the commit began, has written its texts but not yet its meta.json
PagesIndependentWitness ==
    /\ last.op = "commit"
    /\ last.id = "p1"
    /\ last.ret = Numbered(1)
    /\ procs["w1"].pc = "idle"
    /\ procs["w2"].op = "init"
    /\ procs["w2"].id = "p2"
    /\ procs["w2"].pc = "i_meta"
    /\ ~procs["w2"].shared
    /\ procs["w2"].start = NoPage
    /\ fs["p2"].latest # None
    /\ fs["p1"].latest # fs["p1"].base

\* no call on page id is in progress
Quiet(id) == \A w \in Workers : procs[w].pc = "idle" \/ procs[w].id # id

\* the delta files of page id and the commits that returned, one for one
OneToOne(id) ==
    LET names == {commits[id][k].file : k \in 1..Len(commits[id])}
    IN  /\ Cardinality(names) = Len(commits[id])
        /\ names = {DiffName(n) : n \in DOMAIN fs[id].diffs}

\* C18: as long as the calls on a page were serialized by the caller, the
\* delta files of the page correspond one to one to the commits that
\* returned; two commits interleaved at their file operations can allocate
\* the same index (the witness), so that one delta file is left for two
\* commits.
SerializedCommitsOneToOne ==
    \A id \in Ids : (Quiet(id) /\ ~raced[id]) => OneToOne(id)

\* two interleaved commits of different texts returned the same file name and
\* one delta file is on disk
SameIndexTwice ==
    \E id \in Ids :
        /\ Quiet(id)
        /\ raced[id]
        /\ Len(commits[id]) = 2
        /\ commits[id][1].file = commits[id][2].file
        /\ commits[id][1].new_text # commits[id][2].new_text
        /\ Cardinality(DOMAIN fs[id].diffs) = 1
        /\ ~OneToOne(id)

\* C16: while a rebuild of a page (standalone or inside commit) runs with no
\* other writer on that page, a read of latest.md returns the complete
\* previous text until the rename and the complete new text after it, never
\* an error, an empty or a partial text.
ReadDuringRebuild ==
    [][\A w \in Procs :
          (/\ last'.op = "latest"
           /\ procs[w].pc \in RebuildPcs
           /\ procs[w].id = last'.id
           /\ ~procs[w].shared)
          => /\ last'.err = ""
             /\ IF procs[w].pc = "r_meta"
                THEN last'.ret = procs[w].new_text
                ELSE Some(last'.ret) = procs[w].start.latest]_vars

\* a read between the write of .latest.tmp and the rename: the new text is
\* on disk in full and differs from what the reader got
ReadDuringRebuildWitness ==
    /\ last.op = "latest"
    /\ procs["w1"].pc = "r_replace"
    /\ procs["w1"].op = "commit"
    /\ procs["w1"].id = last.id
    /\ fs[last.id].tmp = Some(procs["w1"].new_text)
    /\ last.ret # procs["w1"].new_text
    /\ last.ret # <<>>
    /\ procs["w1"].new_text # <<>>

\* the number in a delta file name such as 001.diff
IndexOf(file) == int(SubSeq(file, 1, Len(file) - 1))

\* C19: the index a commit allocates is greater than every index allocated
\* to the page before, also when delta files were deleted between commits.
IndexNeverReused ==
    \A id \in Ids :
        \A j, k \in 1..Len(commits[id]) :
            j < k => IndexOf(commits[id][j].file) < IndexOf(commits[id][k].file)

\* a stored content of the page no longer matches its recorded hash
HashMismatch(page) ==
    /\ page.base # None
    /\ page.meta # None
    /\ \/ sha256_of_text(page.base[1]) # page.meta[1].baseHash
       \/ \E n \in DOMAIN page.diffs \cap DOMAIN page.djson :
             sha256_of_text(page.diffs[n]) # page.djson[n].diffHash

\* C20: a rebuild of a page one of whose stored contents no longer matches
\* its recorded hash fails with IntegrityMismatch and installs no latest
\* snapshot.
RebuildChecksHashes ==
    [][(last'.op = "rebuild" /\ HashMismatch(fs[last'.id])) =>
          (last'.err = "IntegrityMismatch" /\ fs'[last'.id].latest = fs[last'.id].latest)]_vars

\* the fields of meta.json that only init_page writes
FixedMeta(meta) ==
    [keys |-> meta.keys \cap {"uuid", "title", "author", "genre", "date", "createdAt", "baseHash"},
     uuid |-> meta.uuid, title |-> meta.title, author |-> meta.author,
     genre |-> meta.genre, date |-> meta.date, createdAt |-> meta.createdAt,
     baseHash |-> meta.baseHash]

\* C21: a commit or a rebuild that returns leaves uuid, title, author, genre,
\* date, createdAt and baseHash of meta.json as they were; the author and the
\* message of a commit are stored in the .json of the new delta and add no
\* key to meta.json.
CommitKeepsPageMeta ==
    [][(last'.op \in {"commit", "rebuild"} /\ last'.err = "") =>
          LET old == fs[last'.id].meta[1]
              new == fs'[last'.id].meta[1]
          IN  /\ FixedMeta(new) = FixedMeta(old)
              /\ new.keys \subseteq MetaKeys
              /\ last'.op = "commit" =>
                    LET rec == fs'[last'.id].djson[SubSeq(last'.ret, 1, 3)]
                    IN  /\ SubSeq(last'.ret, 1, 3) \notin DOMAIN fs[last'.id].djson
                        /\ rec.author \in CommitAuthors
                        /\ rec.message \in Messages]_vars

\* a commit by "E" on a page whose author is "A"
CommitKeepsPageMetaWitness ==
    /\ last.op = "commit"
    /\ last.err = ""
    /\ fs[last.id].meta[1].author = "A"
    /\ fs[last.id].meta[1].createdAt < fs[last.id].meta[1].updatedAt
    /\ fs[last.id].djson[SubSeq(last.ret, 1, 3)].author = "E"
    /\ fs[last.id].djson[SubSeq(last.ret, 1, 3)].message = "edit"

\* C30: for every delta k >= 1 of a page, the OLD side of the k-th delta file
\* is the line sequence of view(id, k - 1), the base text for k = 1.
DeltaChain ==
    \A id \in Ids :
        fs[id].base # None =>
            LET stems == sorted_diff_files(fs[id])
            IN  \A k \in 1..Len(stems) :
                    RestoreSide(fs[id].diffs[stems[k]], 1)
                        = splitlines(view_version(fs[id], Some(k - 1)))

\* C23: list_diffs returns one entry per delta file of the page, in strictly
\* ascending order of the numeric index (999 before 1000), each with the
\* content of the delta's .json file or the empty record when that file is
\* missing, and the empty list, without error, for an unknown page or a page
\* without deltas.
ListDiffsComplete ==
    last.op = "list" =>
        LET page == fs[last.id]
            out  == last.ret
            stem(k) == SubSeq(out[k][1], 1, Len(out[k][1]) - 1)
        IN  /\ last.err = ""
            /\ Len(out) = Cardinality(DOMAIN page.diffs)
            /\ \A k \in 1..Len(out) :
                  /\ stem(k) \in DOMAIN page.diffs
                  /\ out[k][1] = DiffName(stem(k))
                  /\ out[k][2] = IF stem(k) \in DOMAIN page.djson
                                 THEN Some(page.djson[stem(k)]) ELSE None
                  /\ k < Len(out) => int(stem(k)) < int(stem(k + 1))

\* delta files 999 and 1000 are listed, 1000 last and without a .json file
ListDiffsWitness ==
    /\ last.op = "list"
    /\ Len(last.ret) >= 3
    /\ last.ret[Len(last.ret) - 1][1] = <<"9", "9", "9", ".diff">>
    /\ last.ret[Len(last.ret)] = <<(<<"1", "0", "0", "0", ".diff">>), None>>
    /\ last.ret[1][2] # None

\* the row of every directory indexToDB can read is in the index as read
EligibleUpserted(rows) ==
    \A id \in Ids :
        (Indexable(id) /\ ~Unparseable(id)) =>
            /\ IndexRow(id).UUID \in DOMAIN rows
            /\ rows[IndexRow(id).UUID] = IndexRow(id)

\* C25: an indexAll on an unlocked index store reports success whatever
\* directories lack meta.json or latest.md or hold an unparseable meta.json,
\* and the rows of all other directories with both files are committed.
IndexAllSkipsBadEntries ==
    [][(IndexToDB /\ ~db.locked) =>
          (last'.ret[1] = "Indexed" /\ EligibleUpserted(db'.rows))]_vars

\* the index entry of the page in directory id: its metadata and the first
\* PREVIEWWORD words of its latest.md
EntryOf(id) ==
    [UUID |-> id, GENRE |-> fs[id].meta[1].genre, AUTHOR |-> fs[id].meta[1].author,
     DATE_CREATED |-> fs[id].meta[1].createdAt,
     PREVIEW |-> preview(fs[id].latest[1]), PREFIX |-> prefix_of(id)]

\* C24: when indexAll has returned, every directory with meta.json and
\* latest.md has the row keyed by its identifier, holding the genre, author,
\* creation date and prefix of the page and the preview of its current
\* latest.md, whatever row it had before.
IndexAllRefreshes ==
    [][IndexToDB =>
          \A id \in Ids :
              Indexable(id) => (id \in DOMAIN db'.rows /\ db'.rows[id] = EntryOf(id))]_vars

\* a directory with latest.md and a meta.json that carries its identifier
Healthy(id) == Indexable(id) /\ fs[id].meta[1].uuid = id

SearchNeverRaises ==
    [][\A id \in Ids :
          Search(id) =>
              /\ last'.err = ""
              /\ last'.ret = IF fs[id].dir /\ id \in DOMAIN db.rows
                             THEN Some(SearchResult(db.rows[id]))
                             ELSE None]_vars

\* the value contains the query; the authors of the model have one letter
Contains(value, query) == query = "" \/ query = value

\* the rows a query selects: the index keeps no title, the author is left
Matching(rows, query) == {k \in DOMAIN rows : Contains(rows[k].AUTHOR, query)}

\* C28: on an index that has its table, list(offset, limit, query) returns
\* entries that contain the query, all of them when the query is empty, and
\* total is the number of entries that contain it.
ListFiltersByQuery ==
    [][\A offset \in ListOffsets, limit \in ListLimits, query \in Queries :
          (ListPage(offset, limit, query) /\ db.table) =>
              /\ last'.err = ""
              /\ last'.ret.total = Cardinality(Matching(db.rows, query))
              /\ \A k \in DOMAIN last'.ret.items :
                    last'.ret.items[k].UUID \in Matching(db.rows, query)]_vars

\* C29: list(offset, limit) without query on an index of m rows returns
\* total = m and min(limit, max(m - offset, 0)) items; the items are rows of
\* the index in descending order of creation date, preceded in that order by
\* offset rows that are not returned and followed by all the others.
ListReturnsSlice ==
    [][\A offset \in ListOffsets, limit \in ListLimits :
          (ListPage(offset, limit, "") /\ db.table) =>
              LET m     == Cardinality(DOMAIN db.rows)
                  items == last'.ret.items
                  ids   == {items[k].UUID : k \in DOMAIN items}
                  date(k) == db.rows[k].DATE_CREATED
              IN  /\ last'.err = ""
                  /\ last'.ret.total = m
                  /\ Len(items) = Min2(limit, IF m > offset THEN m - offset ELSE 0)
                  /\ \A i, j \in DOMAIN items :
                        i < j => /\ items[i].UUID # items[j].UUID
                                 /\ items[i].DATE_CREATED >= items[j].DATE_CREATED
                  /\ \A i \in DOMAIN items :
                        /\ items[i].UUID \in DOMAIN db.rows
                        /\ items[i] = ListItem(db.rows[items[i].UUID])
                  /\ \E before \in SUBSET (DOMAIN db.rows \ ids) :
                        /\ Cardinality(before) = Min2(offset, m)
                        /\ \A b \in before, k \in ids : date(b) >= date(k)
                        /\ \A k \in ids, a \in DOMAIN db.rows \ (ids \cup before) :
                              date(k) >= date(a)]_vars

\* list(1, 1) on an index of two pages returned the older one and total = 2
ListReturnsSliceWitness ==
    /\ last.op = "list_pages"
    /\ last.err = ""
    /\ last.index = Some(<<1, 1>>)
    /\ last.ret.total = 2
    /\ Len(last.ret.items) = 1
    /\ \E k \in DOMAIN db.rows :
          db.rows[k].DATE_CREATED > last.ret.items[1].DATE_CREATED

\* base.md and the delta files a page already has are there, with the same
\* content, after the step
HistoryKept(id) ==
    /\ fs[id].base # None => fs'[id].base = fs[id].base
    /\ \A n \in DOMAIN fs[id].diffs :
          n \in DOMAIN fs'[id].diffs /\ fs'[id].diffs[n] = fs[id].diffs[n]

\* C22: no operation changes or removes the base.md or a delta file of a
\* page; deletePage changes no file and no row of pages_index, and leaves
\* view(id) with the result it had.
AppendOnlyHistory ==
    [][/\ \A id \in Ids : HistoryKept(id)
       /\ \A id \in Ids :
             DeletePage(id) =>
                 /\ fs' = fs
                 /\ db'.rows = db.rows
                 /\ fs[id].base # None =>
                       view_version(fs'[id], None) = view_version(fs[id], None)]_vars

\* latest.md of the page holds the text view(id, null) returns
LatestIsView(page) == page.latest = Some(view_version(page, None))

\* C31: after every call that returns, latest.md of each page, the text
\* get_latest_text returns, equals view(id, null); a rebuild of such a page
\* leaves latest.md and latestHash as they were.
LatestIsReplay ==
    [][/\ \A id \in Ids : fs'[id].base # None => LatestIsView(fs'[id])
       /\ (last'.op = "rebuild" /\ last'.err = "" /\ LatestIsView(fs[last'.id])) =>
             /\ fs'[last'.id].latest = fs[last'.id].latest
             /\ fs'[last'.id].meta[1].latestHash = fs[last'.id].meta[1].latestHash]_vars

\* a text in canonical form: empty, or ending with a newline
Canonical(text) == text = <<>> \/ text[Len(text)] = NL

\* the canonical form of a text
CanonicalForm(text) == IF Canonical(text) THEN text ELSE text \o <<NL>>

\* a delta file without added and without removed line
NoLineChanged(diff_text) ==
    \A k \in DOMAIN splitlines(diff_text) :
        LET line == splitlines(diff_text)[k]
        IN  line = <<>> \/ line[1] \notin {"+", "-"}

\* the texts view returns and rebuild writes are in canonical form
ReadsCanonical ==
    /\ (last'.op = "view" /\ last'.err = "") => Canonical(last'.ret)
    /\ (last'.op \in {"commit", "rebuild"} /\ last'.err = "") =>
          Canonical(fs'[last'.id].latest[1])

CachedReadsAreFresh ==
    [][/\ \A offset \in PageOffsets, limit \in PageLimits :
             (PageList(offset, limit) /\ last'.err = "") =>
                 last'.ret \in PageListResults(db.reads[1], offset, limit)
       /\ \A uuid \in ReadIds :
             (ReadPage(uuid) /\ last'.err = "") =>
                 last'.ret = ReadResult(db.reads[1], uuid)]_vars

\* the calls of the version store
StoreOps == {"init", "commit", "rebuild", "view", "list"}

\* C34: a call of the version store leaves the index store as it is; a page
\* made by init has no row and can be viewed; a commit leaves the preview of
\* the row of its page; the rows change only in indexAll and indexOne.
StoreLeavesIndex ==
    [][/\ last'.op \in StoreOps => db' = db
       /\ (last'.op = "init" /\ ~fs[last'.id].dir) =>
             (last'.id \notin DOMAIN db'.rows /\ fs'[last'.id].base # None)
       /\ (last'.op = "commit" /\ last'.err = "" /\ last'.id \in DOMAIN db.rows) =>
             db'.rows[last'.id].PREVIEW = db.rows[last'.id].PREVIEW
       /\ db'.rows # db.rows => last'.op \in {"indexAll", "indexOne"}]_vars

\* a commit has changed the first word of a page whose row keeps the preview
\* of the text before
StalePreviewWitness ==
    /\ last.op = "commit"
    /\ last.err = ""
    /\ last.id \in DOMAIN db.rows
    /\ db.rows[last.id].PREVIEW = <<"a">>
    /\ fs[last.id].latest = Some(<<"b", NL, "a", NL>>)
    /\ preview(fs[last.id].latest[1]) = <<"b">>

\* the lines of a text joined as apply_diffs_to_text returns them
LinesText(lines) == join(lines) \o (IF lines # <<>> THEN <<NL>> ELSE <<>>)

\* the NEW side of the k-th delta file of the page in numeric order, as text
NewSideText(page, k) ==
    LinesText(RestoreSide(page.diffs[sorted_diff_files(page)[k]], 2))

\* C35: on a page with delta files, view(id, k) for k >= 1 returns the NEW
\* side of the k-th delta file in numeric order (of the last one for k
\* beyond it and for view(id, null)), and rebuild installs the NEW side of
\* the highest-numbered one, whatever base.md and the other delta files hold.
ReplayIsLastDelta ==
    LET page == fs["p1"]
        n    == Cardinality(DOMAIN page.diffs)
    IN  /\ (last.op = "view" /\ last.index = None) => last.ret = NewSideText(page, n)
        /\ (last.op = "view" /\ last.index # None /\ last.index[1] >= 1) =>
              last.ret = NewSideText(page, Min2(last.index[1], n))
        /\ last.op = "rebuild" => page.latest = Some(NewSideText(page, n))

\* view(id, 2) returned "a\n" from a second delta that was not computed
\* against what the first leads to, over a base text that is neither
ReplayWitness ==
    LET page == fs["p1"]
    IN  /\ last.op = "view"
        /\ last.index = Some(2)
        /\ last.ret = <<"a", NL>>
        /\ Cardinality(DOMAIN page.diffs) = 2
        /\ page.base = Some(<<NL>>)
        /\ RestoreSide(page.diffs[zero_pad(1)], 2) = <<>>
        /\ RestoreSide(page.diffs[zero_pad(2)], 1) = <<"">>
        /\ view_version(page, Some(1)) = <<>>

\* the rename of a rebuild that ran alone on its page installs the text the
\* rebuild computed
RenameAlone ==
    \A w \in Workers :
        (/\ procs[w].pc = "r_replace"
         /\ procs'[w].pc # "r_replace"
         /\ ~procs[w].shared)
        => /\ procs'[w].pc = "r_meta"
           /\ fs'[procs[w].id].latest = Some(procs[w].new_text)

\* a page at rest that no two calls worked on at once: no temporary file is
\* left and latestHash is the hash of latest.md
AtRestAlone ==
    \A id \in Ids :
        (Quiet(id) /\ ~raced[id] /\ fs[id].meta # None)
        => /\ fs[id].tmp = None
           /\ fs[id].latest # None
           /\ fs[id].meta[1].latestHash = sha256_of_text(fs[id].latest[1])

PartialTmpWitness ==
    \E w, o \in Workers :
        /\ procs[w].pc = "r_write"
        /\ procs[w].fd = "latest"
        /\ procs[o].pc = "r_meta"
        /\ procs[o].id = procs[w].id
        /\ fs[procs[w].id].latest = Some(<<>>)
        /\ procs[w].new_text # <<>>
        /\ procs[o].new_text # <<>>

====
